---- MODULE Spec2Model ----
(***************************************************************************)
(* FantasyBoardGame: the character / combat model (Character, Player,      *)
(* Enemy), the item effects (Weapon, Armour, Shield, Ring), the board      *)
(* (BoardSquare, Board) and the command loop of main().                    *)
(*                                                                         *)
(* Probabilities are kept in twelfths (2/3 = 8, 1/2 = 6, 1/3 = 4,          *)
(* 1/4 = 3, 1 = 12); a roll of Utility::randReal(0,1) is a number of       *)
(* twelfths in 0..11.                                                      *)
(***************************************************************************)
EXTENDS Integers, Sequences, FiniteSets, TLC

VARIABLES
    player,        \* the Player object of main (Character fields, x, y, gold)
    grid,          \* Board::grid_ : cell -> [item, enemy]
    night,         \* Utility.cpp: static bool _isNight
    commandCount,  \* main: int commandCount
    running,       \* main: bool running
    crashed,       \* the process was terminated by a use of a freed Item
    lastCmd,       \* the command (or harness operation) that ran last
    ret,           \* what the last board / character operation returned
    out,           \* the messages the last command wrote to std::cout
    draws,         \* how many numbers the last command drew from Utility's rng()
    other,         \* the Character a direct attack() call is aimed at, or NullChar
    dice           \* the random values the last direct attack() call was given

vars == <<player, grid, night, commandCount, running, crashed,
          lastCmd, ret, out, draws, other, dice>>

(***************************************************************************)
(* Bounds of the model.                                                    *)
(***************************************************************************)
Width == 2
Height == 1
MaxCommands == 6
MaxOccupied == 2
MaxInventory == 4

(***************************************************************************)
(* Constants.h                                                             *)
(***************************************************************************)
COMMANDS_PER_TIME_SWITCH == 5

HUMAN == [attack |-> 30, attackChance |-> 8, defence |-> 20,
          defenceChance |-> 6, health |-> 60, strength |-> 100]
ELF == [attack |-> 40, attackChance |-> 12, defence |-> 10,
        defenceChance |-> 3, health |-> 40, strength |-> 70]
DWARF == [attack |-> 30, attackChance |-> 8, defence |-> 20,
          defenceChance |-> 8, health |-> 50, strength |-> 130]
HOBBIT == [attack |-> 25, attackChance |-> 4, defence |-> 20,
           defenceChance |-> 8, health |-> 70, strength |-> 85]
ORC_DAY == [attack |-> 25, attackChance |-> 3, defence |-> 10,
            defenceChance |-> 3, health |-> 50, strength |-> 130]
ORC_NIGHT == [attack |-> 45, attackChance |-> 12, defence |-> 25,
              defenceChance |-> 6, health |-> 50, strength |-> 130]

Races == {"Human", "Elf", "Dwarf", "Hobbit", "Orc"}

(***************************************************************************)
(* Utility.cpp                                                             *)
(***************************************************************************)
\* the values randReal(0.0, 1.0) is sampled at, in twelfths
Rolls == {0, 11}

\* Utility::probability(chance): randReal(0.0, 1.0) <= chance
probability(chance, r) == r <= chance

\* the values Utility::randInt(0, 5) returns
randInt05 == 0..5

(***************************************************************************)
(* Items: Item.h, Weapon, Armour, Shield, Ring, ItemFactory.cpp            *)
(***************************************************************************)
Weapon(name, weight, attackBoost) ==
    [name |-> name, weight |-> weight, type |-> "WEAPON",
     attackBoost |-> attackBoost, defenceBoost |-> 0, attackPenalty |-> 0,
     healthBoost |-> 0, strengthBoost |-> 0]

Armour(name, weight, defenceBoost, attackPenalty) ==
    [name |-> name, weight |-> weight, type |-> "ARMOUR",
     attackBoost |-> 0, defenceBoost |-> defenceBoost,
     attackPenalty |-> attackPenalty, healthBoost |-> 0, strengthBoost |-> 0]

Shield(name, weight, defenceBoost, attackPenalty) ==
    [name |-> name, weight |-> weight, type |-> "SHIELD",
     attackBoost |-> 0, defenceBoost |-> defenceBoost,
     attackPenalty |-> attackPenalty, healthBoost |-> 0, strengthBoost |-> 0]

Ring(name, weight, healthBoost, strengthBoost) ==
    [name |-> name, weight |-> weight, type |-> "RING",
     attackBoost |-> 0, defenceBoost |-> 0, attackPenalty |-> 0,
     healthBoost |-> healthBoost, strengthBoost |-> strengthBoost]

\* a null std::unique_ptr<Item>
NullItem ==
    [name |-> "nullptr", weight |-> 0, type |-> "NULL",
     attackBoost |-> 0, defenceBoost |-> 0, attackPenalty |-> 0,
     healthBoost |-> 0, strengthBoost |-> 0]

\* ItemFactory::createRandomItem, by the value of randInt(0, 7)
createRandomItem(choice) ==
    CASE choice = 0 -> Weapon("Sword", 10, 10)
      [] choice = 1 -> Weapon("Dagger", 5, 5)
      [] choice = 2 -> Armour("Plate Armour", 40, 10, 5)
      [] choice = 3 -> Armour("Leather Armour", 20, 5, 0)
      [] choice = 4 -> Shield("Large Shield", 30, 10, 5)
      [] choice = 5 -> Shield("Small Shield", 10, 5, 0)
      [] choice = 6 -> Ring("Ring of Life", 1, 10, 0)
      [] choice = 7 -> Ring("Ring of Strength", 1, -10, 50)
      [] OTHER -> NullItem

FactoryItems == {createRandomItem(choice) : choice \in 0..7}

(***************************************************************************)
(* Character.h / Character.cpp                                             *)
(***************************************************************************)
\* Character::Character: base and effective stats from one RaceStats
Character(raceName, s) ==
    [race |-> raceName, kind |-> "Character",
     baseAttack |-> s.attack, baseDefence |-> s.defence,
     baseHealth |-> s.health, baseStrength |-> s.strength,
     attack |-> s.attack, defence |-> s.defence,
     health |-> s.health, strength |-> s.strength,
     carriedWeight |-> 0,
     attackChance |-> s.attackChance, defenceChance |-> s.defenceChance,
     inventory |-> <<>>,
     x |-> 0, y |-> 0, gold |-> 0]

\* a null Character* / std::unique_ptr<Enemy>
NullChar ==
    [race |-> "nullptr", kind |-> "nullptr",
     baseAttack |-> 0, baseDefence |-> 0, baseHealth |-> 0, baseStrength |-> 0,
     attack |-> 0, defence |-> 0, health |-> 0, strength |-> 0,
     carriedWeight |-> 0, attackChance |-> 0, defenceChance |-> 0,
     inventory |-> <<>>, x |-> 0, y |-> 0, gold |-> 0]

isAlive(c) == c.health > 0

\* modifyAttack without the floor at 0
modifyAttack_NoFloor(c, delta) == [c EXCEPT !.attack = c.attack + delta]

modifyAttack(c, delta) ==
    [c EXCEPT !.attack = IF c.attack + delta < 0 THEN 0 ELSE c.attack + delta]

modifyDefence(c, delta) ==
    [c EXCEPT !.defence = IF c.defence + delta < 0 THEN 0 ELSE c.defence + delta]

\* modifyHealth without the floor at 0
modifyHealth_NoFloor(c, delta) == [c EXCEPT !.health = c.health + delta]


modifyHealth(c, delta) ==
    [c EXCEPT !.health = IF c.health + delta < 0 THEN 0 ELSE c.health + delta]

modifyStrength(c, delta) ==
    [c EXCEPT !.strength = IF c.strength + delta < 0 THEN 0 ELSE c.strength + delta]

\* Weapon::applyEffect
WeaponApplyEffect(it, c) == modifyAttack(c, it.attackBoost)

\* Weapon::removeEffect
WeaponRemoveEffect(it, c) == modifyAttack(c, -it.attackBoost)

\* Armour::applyEffect
ArmourApplyEffect(it, c) ==
    LET c1 == modifyDefence(c, it.defenceBoost)
    IN  IF it.attackPenalty # 0 THEN modifyAttack(c1, -it.attackPenalty) ELSE c1

\* a removeEffect of an armour that takes the defence back and keeps the
\* attack penalty
ArmourRemoveEffect_KeepsPenalty(it, c) == modifyDefence(c, -it.defenceBoost)

\* Armour::removeEffect
ArmourRemoveEffect(it, c) ==
    LET c1 == modifyDefence(c, -it.defenceBoost)
    IN  IF it.attackPenalty # 0 THEN modifyAttack(c1, it.attackPenalty) ELSE c1

\* Shield::applyEffect
ShieldApplyEffect(it, c) ==
    LET c1 == modifyDefence(c, it.defenceBoost)
    IN  IF it.attackPenalty # 0 THEN modifyAttack(c1, -it.attackPenalty) ELSE c1

\* Shield::removeEffect
ShieldRemoveEffect(it, c) ==
    LET c1 == modifyDefence(c, -it.defenceBoost)
    IN  IF it.attackPenalty # 0 THEN modifyAttack(c1, it.attackPenalty) ELSE c1

\* Ring::applyEffect
RingApplyEffect(it, c) ==
    LET c1 == IF it.healthBoost # 0 THEN modifyHealth(c, it.healthBoost) ELSE c
    IN  IF it.strengthBoost # 0 THEN modifyStrength(c1, it.strengthBoost) ELSE c1

\* a removeEffect of a ring that gives back the health and forgets the strength
RingRemoveEffect_HealthOnly(it, c) ==
    IF it.healthBoost # 0 THEN modifyHealth(c, -it.healthBoost) ELSE c

\* Ring::removeEffect
RingRemoveEffect(it, c) ==
    LET c1 == IF it.healthBoost # 0 THEN modifyHealth(c, -it.healthBoost) ELSE c
    IN  IF it.strengthBoost # 0 THEN modifyStrength(c1, -it.strengthBoost) ELSE c1

\* the virtual call item->applyEffect(*this)
applyEffect(it, c) ==
    CASE it.type = "WEAPON" -> WeaponApplyEffect(it, c)
      [] it.type = "ARMOUR" -> ArmourApplyEffect(it, c)
      [] it.type = "SHIELD" -> ShieldApplyEffect(it, c)
      [] it.type = "RING" -> RingApplyEffect(it, c)

\* the virtual call item->removeEffect(*this)
removeEffect(it, c) ==
    CASE it.type = "WEAPON" -> WeaponRemoveEffect(it, c)
      [] it.type = "ARMOUR" -> ArmourRemoveEffect(it, c)
      [] it.type = "SHIELD" -> ShieldRemoveEffect(it, c)
      [] it.type = "RING" -> RingRemoveEffect(it, c)

\* the RaceStats a constructor picks for a race name
RaceStatsOf(raceName, fallback) ==
    CASE raceName = "Human" -> HUMAN
      [] raceName = "Elf" -> ELF
      [] raceName = "Dwarf" -> DWARF
      [] raceName = "Hobbit" -> HOBBIT
      [] raceName = "Orc" -> ORC_DAY
      [] OTHER -> fallback

\* Player::Player(raceName, startX, startY)
Player(raceName, startX, startY) ==
    [Character(raceName, RaceStatsOf(raceName, HUMAN))
        EXCEPT !.kind = "Player", !.x = startX, !.y = startY, !.gold = 0]

\* Enemy::Enemy(raceName)
Enemy(raceName) ==
    [Character(raceName, RaceStatsOf(raceName, ORC_DAY)) EXCEPT !.kind = "Enemy"]

\* one line of output, tagged with the dynamic type of the character it names
Msg(c, text) == <<c.kind, text>>

\* handleSuccessfulDefence whose Elf blocks without regaining health
PlayerHandleSuccessfulDefence_ElfNoHeal(c, isNight, rh) ==
    IF c.race = "Human" \/ c.race = "Dwarf" \/ c.race = "Elf"
    THEN [c |-> c, dmg |-> 0, draws |-> 0]
    ELSE IF c.race = "Hobbit" THEN [c |-> c, dmg |-> rh, draws |-> 1]
    ELSE IF c.race = "Orc" THEN
        IF isNight THEN [c |-> modifyHealth(c, 1), dmg |-> 0, draws |-> 0]
        ELSE LET adjusted == IF c.baseAttack - c.baseDefence < 0 THEN 0
                             ELSE c.baseAttack - c.baseDefence
             IN  [c |-> c, dmg |-> adjusted \div 4, draws |-> 0]
    ELSE [c |-> c, dmg |-> 0, draws |-> 0]

\* Player::handleSuccessfulDefence; rh is the value randInt(0, 5) would return
PlayerHandleSuccessfulDefence(c, isNight, rh) ==
    IF c.race = "Human" \/ c.race = "Dwarf" THEN [c |-> c, dmg |-> 0, draws |-> 0]
    ELSE IF c.race = "Elf" THEN [c |-> modifyHealth(c, 1), dmg |-> 0, draws |-> 0]
    ELSE IF c.race = "Hobbit" THEN [c |-> c, dmg |-> rh, draws |-> 1]
    ELSE IF c.race = "Orc" THEN
        IF isNight THEN [c |-> modifyHealth(c, 1), dmg |-> 0, draws |-> 0]
        ELSE LET adjusted == IF c.baseAttack - c.baseDefence < 0 THEN 0
                             ELSE c.baseAttack - c.baseDefence
             IN  [c |-> c, dmg |-> adjusted \div 4, draws |-> 0]
    ELSE [c |-> c, dmg |-> 0, draws |-> 0]

\* handleSuccessfulDefence whose Hobbit takes twice the value drawn
EnemyHandleSuccessfulDefence_HobbitDouble(c, isNight, rh) ==
    IF c.race = "Human" \/ c.race = "Dwarf" THEN [c |-> c, dmg |-> 0, draws |-> 0]
    ELSE IF c.race = "Elf" THEN [c |-> modifyHealth(c, 1), dmg |-> 0, draws |-> 0]
    ELSE IF c.race = "Hobbit" THEN [c |-> c, dmg |-> 2 * rh, draws |-> 1]
    ELSE IF c.race = "Orc" THEN
        IF isNight THEN [c |-> modifyHealth(c, 1), dmg |-> 0, draws |-> 0]
        ELSE LET adjusted == IF c.baseAttack - c.baseDefence < 0 THEN 0
                             ELSE c.baseAttack - c.baseDefence
             IN  [c |-> c, dmg |-> adjusted \div 4, draws |-> 0]
    ELSE [c |-> c, dmg |-> 0, draws |-> 0]

\* handleSuccessfulDefence whose Orc computes the day damage from its current
\* attack and defence instead of its base stats
EnemyHandleSuccessfulDefence_Effective(c, isNight, rh) ==
    IF c.race = "Human" \/ c.race = "Dwarf" THEN [c |-> c, dmg |-> 0, draws |-> 0]
    ELSE IF c.race = "Elf" THEN [c |-> modifyHealth(c, 1), dmg |-> 0, draws |-> 0]
    ELSE IF c.race = "Hobbit" THEN [c |-> c, dmg |-> rh, draws |-> 1]
    ELSE IF c.race = "Orc" THEN
        IF isNight THEN [c |-> modifyHealth(c, 1), dmg |-> 0, draws |-> 0]
        ELSE LET adjusted == IF c.attack - c.defence < 0 THEN 0
                             ELSE c.attack - c.defence
             IN  [c |-> c, dmg |-> adjusted \div 4, draws |-> 0]
    ELSE [c |-> c, dmg |-> 0, draws |-> 0]

\* Enemy::handleSuccessfulDefence
EnemyHandleSuccessfulDefence(c, isNight, rh) ==
    IF c.race = "Human" \/ c.race = "Dwarf" THEN [c |-> c, dmg |-> 0, draws |-> 0]
    ELSE IF c.race = "Elf" THEN [c |-> modifyHealth(c, 1), dmg |-> 0, draws |-> 0]
    ELSE IF c.race = "Hobbit" THEN [c |-> c, dmg |-> rh, draws |-> 1]
    ELSE IF c.race = "Orc" THEN
        IF isNight THEN [c |-> modifyHealth(c, 1), dmg |-> 0, draws |-> 0]
        ELSE LET adjusted == IF c.baseAttack - c.baseDefence < 0 THEN 0
                             ELSE c.baseAttack - c.baseDefence
                 dmg == adjusted \div 4
             IN  [c |-> c, dmg |-> dmg, draws |-> 0]
    ELSE [c |-> c, dmg |-> 0, draws |-> 0]

\* the virtual call target->handleSuccessfulDefence()
handleSuccessfulDefence(c, isNight, rh) ==
    IF c.kind = "Player" THEN PlayerHandleSuccessfulDefence(c, isNight, rh)
    ELSE EnemyHandleSuccessfulDefence(c, isNight, rh)

\* updateForTime without the early return for the races that are not Orc
PlayerUpdateForTime_AnyRace(c, isNight) ==
    IF isNight
    THEN [c EXCEPT !.attack = ORC_NIGHT.attack,
                   !.attackChance = ORC_NIGHT.attackChance,
                   !.defence = ORC_NIGHT.defence,
                   !.defenceChance = ORC_NIGHT.defenceChance]
    ELSE [c EXCEPT !.attack = ORC_DAY.attack,
                   !.attackChance = ORC_DAY.attackChance,
                   !.defence = ORC_DAY.defence,
                   !.defenceChance = ORC_DAY.defenceChance]

\* updateForTime that sets attack and defence and leaves the two chances
PlayerUpdateForTime_StatsOnly(c, isNight) ==
    IF c.race # "Orc" THEN c
    ELSE IF isNight
         THEN [c EXCEPT !.attack = ORC_NIGHT.attack,
                        !.defence = ORC_NIGHT.defence]
         ELSE [c EXCEPT !.attack = ORC_DAY.attack,
                        !.defence = ORC_DAY.defence]

\* Player::updateForTime
PlayerUpdateForTime(c, isNight) ==
    IF c.race # "Orc" THEN c
    ELSE IF isNight
         THEN [c EXCEPT !.attack = ORC_NIGHT.attack,
                        !.attackChance = ORC_NIGHT.attackChance,
                        !.defence = ORC_NIGHT.defence,
                        !.defenceChance = ORC_NIGHT.defenceChance]
         ELSE [c EXCEPT !.attack = ORC_DAY.attack,
                        !.attackChance = ORC_DAY.attackChance,
                        !.defence = ORC_DAY.defence,
                        !.defenceChance = ORC_DAY.defenceChance]

\* updateForTime that adds the difference between the two profiles to attack
\* and defence instead of overwriting them
EnemyUpdateForTime_Cumulative(c, isNight) ==
    IF c.race # "Orc" THEN c
    ELSE LET sign == IF isNight THEN 1 ELSE -1
             c1 == modifyAttack(c, sign * (ORC_NIGHT.attack - ORC_DAY.attack))
             c2 == modifyDefence(c1, sign * (ORC_NIGHT.defence - ORC_DAY.defence))
             prof == IF isNight THEN ORC_NIGHT ELSE ORC_DAY
         IN  [c2 EXCEPT !.attackChance = prof.attackChance,
                        !.defenceChance = prof.defenceChance]

\* Enemy::updateForTime
EnemyUpdateForTime(c, isNight) ==
    IF c.race # "Orc" THEN c
    ELSE IF isNight
         THEN [c EXCEPT !.attack = ORC_NIGHT.attack,
                        !.attackChance = ORC_NIGHT.attackChance,
                        !.defence = ORC_NIGHT.defence,
                        !.defenceChance = ORC_NIGHT.defenceChance]
         ELSE [c EXCEPT !.attack = ORC_DAY.attack,
                        !.attackChance = ORC_DAY.attackChance,
                        !.defence = ORC_DAY.defence,
                        !.defenceChance = ORC_DAY.defenceChance]

\* Character::attackSuccess
attackSuccess(c, r) == probability(c.attackChance, r)

\* Character::defenceSuccess
defenceSuccess(c, r) == probability(c.defenceChance, r)

\* attack() that does not return after a missed attack roll
attack_MissFallsThrough(a, target, isNight, ra, rd, rh) ==
    IF target = NullChar
    THEN [attacker |-> a, target |-> target, draws |-> 0,
          out |-> << <<"Character", "No target to attack.">> >>]
    ELSE IF ~isAlive(target)
    THEN [attacker |-> a, target |-> target, draws |-> 0,
          out |-> << Msg(target, "is already defeated.") >>]
    ELSE IF attackSuccess(a, ra) /\ defenceSuccess(target, rd)
    THEN LET h == handleSuccessfulDefence(target, isNight, rh)
             t1 == IF h.dmg > 0 THEN modifyHealth(h.c, -h.dmg) ELSE h.c
         IN  [attacker |-> a, target |-> t1, draws |-> 2 + h.draws,
              out |-> << Msg(a, "attacks"),
                         Msg(target, "successfully defended (special).") >>]
    ELSE LET raw == a.attack - target.defence
             damage == IF raw < 0 THEN 0 ELSE raw
         IN  [attacker |-> a, target |-> modifyHealth(target, -damage),
              draws |-> 2,
              out |-> IF attackSuccess(a, ra)
                      THEN << Msg(a, "attacks"), Msg(a, "deals damage") >>
                      ELSE << Msg(a, "attacks"), Msg(a, "missed the attack."),
                              Msg(a, "deals damage") >>]

\* attack() that does not return early for a target that is already defeated
attack_NoDefeatedCheck(a, target, isNight, ra, rd, rh) ==
    IF target = NullChar
    THEN [attacker |-> a, target |-> target, draws |-> 0,
          out |-> << <<"Character", "No target to attack.">> >>]
    ELSE IF ~attackSuccess(a, ra)
    THEN [attacker |-> a, target |-> target, draws |-> 1,
          out |-> << Msg(a, "attacks"), Msg(a, "missed the attack.") >>]
    ELSE IF defenceSuccess(target, rd)
    THEN LET h == handleSuccessfulDefence(target, isNight, rh)
             t1 == IF h.dmg > 0 THEN modifyHealth(h.c, -h.dmg) ELSE h.c
         IN  [attacker |-> a, target |-> t1, draws |-> 2 + h.draws,
              out |-> << Msg(a, "attacks"),
                         Msg(target, "successfully defended (special).") >>]
    ELSE LET raw == a.attack - target.defence
             damage == IF raw < 0 THEN 0 ELSE raw
         IN  [attacker |-> a, target |-> modifyHealth(target, -damage),
              draws |-> 2,
              out |-> << Msg(a, "attacks"), Msg(a, "deals damage") >>]

\* Character::attack(target); ra, rd are the two randReal values and rh the
\* randInt value the call would draw, isNight is Utility::isNight()
attack(a, target, isNight, ra, rd, rh) ==
    IF target = NullChar
    THEN [attacker |-> a, target |-> target, draws |-> 0,
          out |-> << <<"Character", "No target to attack.">> >>]
    ELSE IF ~isAlive(target)
    THEN [attacker |-> a, target |-> target, draws |-> 0,
          out |-> << Msg(target, "is already defeated.") >>]
    ELSE IF ~attackSuccess(a, ra)
    THEN [attacker |-> a, target |-> target, draws |-> 1,
          out |-> << Msg(a, "attacks"), Msg(a, "missed the attack.") >>]
    ELSE IF defenceSuccess(target, rd)
    THEN LET h == handleSuccessfulDefence(target, isNight, rh)
             specialDamage == h.dmg
             t1 == IF specialDamage > 0 THEN modifyHealth(h.c, -specialDamage)
                   ELSE h.c
         IN  [attacker |-> a, target |-> t1, draws |-> 2 + h.draws,
              out |-> << Msg(a, "attacks"),
                         Msg(target, "successfully defended (special).") >>]
    ELSE LET raw == a.attack - target.defence
             damage == IF raw < 0 THEN 0 ELSE raw
         IN  [attacker |-> a, target |-> modifyHealth(target, -damage),
              draws |-> 2,
              out |-> << Msg(a, "attacks"), Msg(a, "deals damage") >>]

\* does the inventory hold an item of type t
HasType(inv, t) == \E i \in 1..Len(inv) : inv[i].type = t

\* pickUp that also refuses an item whose weight exactly fills the capacity
pickUp_StrictWeight(c, item) ==
    IF item = NullItem THEN [c |-> c, ok |-> FALSE]
    ELSE IF item.type # "RING" /\ HasType(c.inventory, item.type)
    THEN [c |-> c, ok |-> FALSE]
    ELSE IF c.carriedWeight + item.weight >= c.strength
    THEN [c |-> c, ok |-> FALSE]
    ELSE LET c1 == applyEffect(item, c)
         IN  [c |-> [c1 EXCEPT !.carriedWeight = c1.carriedWeight + item.weight,
                               !.inventory = Append(c1.inventory, item)],
              ok |-> TRUE]

\* Character::pickUp(item): the character afterwards and the value returned
pickUp(c, item) ==
    IF item = NullItem THEN [c |-> c, ok |-> FALSE]
    ELSE IF item.type # "RING" /\ HasType(c.inventory, item.type)
    THEN [c |-> c, ok |-> FALSE]
    ELSE IF c.carriedWeight + item.weight > c.strength
    THEN [c |-> c, ok |-> FALSE]
    ELSE LET c1 == applyEffect(item, c)
         IN  [c |-> [c1 EXCEPT !.carriedWeight = c1.carriedWeight + item.weight,
                               !.inventory = Append(c1.inventory, item)],
              ok |-> TRUE]

\* the sequence without its element at (1-based) position i
EraseAt(s, i) == [k \in 1..(Len(s) - 1) |-> IF k < i THEN s[k] ELSE s[k + 1]]

\* removeItem that reverses the effect but leaves carriedWeight as it was
removeItem_KeepsWeight(c, index) ==
    IF index >= Len(c.inventory) THEN [c |-> c, item |-> NullItem]
    ELSE LET taken == c.inventory[index + 1]
             c1 == removeEffect(taken, c)
         IN  [c |-> [c1 EXCEPT !.inventory = EraseAt(c1.inventory, index + 1)],
              item |-> taken]

\* Character::removeItem(index), index counted from 0: the character
\* afterwards and the item handed out (NullItem for nullptr)
removeItem(c, index) ==
    IF index >= Len(c.inventory) THEN [c |-> c, item |-> NullItem]
    ELSE LET taken == c.inventory[index + 1]
             c1 == removeEffect(taken, c)
             w == c1.carriedWeight - taken.weight
         IN  [c |-> [c1 EXCEPT !.carriedWeight = IF w < 0 THEN 0 ELSE w,
                               !.inventory = EraseAt(c1.inventory, index + 1)],
              item |-> taken]

\* addItemBack that puts the item back without counting its weight
addItemBack_NoWeight(c, item) ==
    IF item = NullItem THEN c
    ELSE IF c.carriedWeight + item.weight > c.strength THEN c
    ELSE LET c1 == applyEffect(item, c)
         IN  [c1 EXCEPT !.inventory = Append(c1.inventory, item)]

\* Character::addItemBack(item)
addItemBack(c, item) ==
    IF item = NullItem THEN c
    ELSE IF c.carriedWeight + item.weight > c.strength THEN c
    ELSE LET c1 == applyEffect(item, c)
         IN  [c1 EXCEPT !.carriedWeight = c1.carriedWeight + item.weight,
                        !.inventory = Append(c1.inventory, item)]

\* Player::returnDroppedItem(item)
returnDroppedItem(c, item) == addItemBack(c, item)

\* addGold that takes the amount away
addGold_Spends(c, v) == [c EXCEPT !.gold = c.gold - v]

\* Player::addGold(v)
addGold(c, v) == [c EXCEPT !.gold = c.gold + v]

\* Player::setPosition(x, y)
setPosition(c, x, y) == [c EXCEPT !.x = x, !.y = y]

\* a reward read from the attack value instead of the defence value
getDefenceValueWithItems_Attack(c) == c.attack

\* Character::getDefenceValueWithItems
getDefenceValueWithItems(c) == c.defence

(***************************************************************************)
(* BoardSquare.h / BoardSquare.cpp                                         *)
(***************************************************************************)
\* BoardSquare::BoardSquare
BoardSquare == [item |-> NullItem, enemy |-> NullChar]

hasEnemy(sq) == sq.enemy # NullChar

hasItem(sq) == sq.item # NullItem

placeItem(sq, item) == [sq EXCEPT !.item = item]

placeEnemy(sq, enemy) == [sq EXCEPT !.enemy = enemy]

\* BoardSquare::takeItem: the square afterwards and the item handed out
takeItem(sq) == [sq |-> [sq EXCEPT !.item = NullItem], item |-> sq.item]

\* BoardSquare::takeEnemy
takeEnemy(sq) == [sq |-> [sq EXCEPT !.enemy = NullChar], enemy |-> sq.enemy]

\* BoardSquare::dropItem(itemToDrop): the square afterwards and the value returned
dropItem(sq, itemToDrop) ==
    IF itemToDrop = NullItem THEN [sq |-> sq, ok |-> FALSE]
    ELSE IF sq.item # NullItem THEN [sq |-> sq, ok |-> FALSE]
    ELSE [sq |-> [sq EXCEPT !.item = itemToDrop], ok |-> TRUE]

\* BoardSquare::look
look(sq) ==
    IF sq.enemy # NullChar
    THEN <<"Square", "An enemy is here", sq.enemy.race,
           sq.enemy.health, sq.enemy.attack, sq.enemy.defence>>
    ELSE IF sq.item # NullItem
    THEN <<"Square", "You see an item", sq.item.name, sq.item.weight>>
    ELSE <<"Square", "The square is empty.">>

(***************************************************************************)
(* Board.h / Board.cpp                                                     *)
(***************************************************************************)
Cells == (0..(Width - 1)) \X (0..(Height - 1))

\* Board::width_ and Board::height_ of the board whose grid_ is g
width(g) == Cardinality({c[1] : c \in DOMAIN g})
height(g) == Cardinality({c[2] : c \in DOMAIN g})

\* Board::inBounds
inBounds(g, x, y) == x >= 0 /\ x < width(g) /\ y >= 0 /\ y < height(g)

\* Enemy::createRandomEnemy, by the value of randInt(0, 4)
createRandomEnemy(idx) ==
    Enemy(CASE idx = 0 -> "Human" [] idx = 1 -> "Elf" [] idx = 2 -> "Dwarf"
            [] idx = 3 -> "Hobbit" [] OTHER -> "Orc")

\* Board::populateSquare, by the values of randInt(0, 2) and of the factory's draw
populateSquare(c, pick, isNight) ==
    IF c = 0 THEN placeEnemy(BoardSquare,
                             EnemyUpdateForTime(createRandomEnemy(pick), isNight))
    ELSE IF c = 1 THEN placeItem(BoardSquare, createRandomItem(pick))
    ELSE BoardSquare

\* the enemies (values of randInt(0, 4)) and items (values of randInt(0, 7))
\* the boards of the model are populated with: Elf and Orc enemies, the Sword
\* and the two rings
EnemyPicks == {1, 4}
ItemPicks == {0, 6, 7}

\* the squares populateSquare produces for these picks
PopulatedSquares ==
    {populateSquare(0, pick, FALSE) : pick \in EnemyPicks}
        \cup {populateSquare(1, pick, FALSE) : pick \in ItemPicks}
        \cup {populateSquare(2, 0, FALSE)}

\* std::toupper on the command letters
toupper(ch) ==
    CASE ch = "n" -> "N" [] ch = "s" -> "S" [] ch = "e" -> "E" [] ch = "w" -> "W"
      [] OTHER -> ch

\* Board::lookAtPlayerSquare
lookAtPlayerSquare(p, g) == << look(g[<<p.x, p.y>>]) >>

\* movePlayer that takes an unknown direction character for a move of no step
movePlayer_UnknownStays(p, g, direction, isNight) ==
    LET d == toupper(direction)
        nx == IF d = "E" THEN p.x + 1 ELSE IF d = "W" THEN p.x - 1 ELSE p.x
        ny == IF d = "N" THEN p.y - 1 ELSE IF d = "S" THEN p.y + 1 ELSE p.y
    IN  IF ~inBounds(g, nx, ny)
        THEN [player |-> p, grid |-> g, ret |-> FALSE,
              out |-> << <<"Board", "You cannot move that direction (out of bounds).">> >>]
        ELSE LET p1 == setPosition(p, nx, ny)
                 sq == g[<<nx, ny>>]
                 g1 == IF hasEnemy(sq)
                       THEN [g EXCEPT ![<<nx, ny>>] =
                                placeEnemy(sq, EnemyUpdateForTime(sq.enemy, isNight))]
                       ELSE g
             IN  [player |-> p1, grid |-> g1, ret |-> TRUE,
                  out |-> lookAtPlayerSquare(p1, g1)]

\* movePlayer that sets the new position before it checks the bounds
movePlayer_SetsBeforeCheck(p, g, direction, isNight) ==
    LET d == toupper(direction)
        nx == IF d = "E" THEN p.x + 1 ELSE IF d = "W" THEN p.x - 1 ELSE p.x
        ny == IF d = "N" THEN p.y - 1 ELSE IF d = "S" THEN p.y + 1 ELSE p.y
    IN  IF d \notin {"N", "S", "E", "W"}
        THEN [player |-> p, grid |-> g, ret |-> FALSE,
              out |-> << <<"Board", "Unknown direction.">> >>]
        ELSE IF ~inBounds(g, nx, ny)
        THEN [player |-> setPosition(p, nx, ny), grid |-> g, ret |-> FALSE,
              out |-> << <<"Board", "You cannot move that direction (out of bounds).">> >>]
        ELSE LET p1 == setPosition(p, nx, ny)
                 sq == g[<<nx, ny>>]
                 g1 == IF hasEnemy(sq)
                       THEN [g EXCEPT ![<<nx, ny>>] =
                                placeEnemy(sq, EnemyUpdateForTime(sq.enemy, isNight))]
                       ELSE g
             IN  [player |-> p1, grid |-> g1, ret |-> TRUE,
                  out |-> lookAtPlayerSquare(p1, g1)]

\* movePlayer that does not refresh the creature of the destination cell
movePlayer_NoRefresh(p, g, direction, isNight) ==
    LET d == toupper(direction)
        nx == IF d = "E" THEN p.x + 1 ELSE IF d = "W" THEN p.x - 1 ELSE p.x
        ny == IF d = "N" THEN p.y - 1 ELSE IF d = "S" THEN p.y + 1 ELSE p.y
    IN  IF d \notin {"N", "S", "E", "W"}
        THEN [player |-> p, grid |-> g, ret |-> FALSE,
              out |-> << <<"Board", "Unknown direction.">> >>]
        ELSE IF ~inBounds(g, nx, ny)
        THEN [player |-> p, grid |-> g, ret |-> FALSE,
              out |-> << <<"Board", "You cannot move that direction (out of bounds).">> >>]
        ELSE LET p1 == setPosition(p, nx, ny)
             IN  [player |-> p1, grid |-> g, ret |-> TRUE,
                  out |-> lookAtPlayerSquare(p1, g)]

\* movePlayer with east and west exchanged
movePlayer_Mirrored(p, g, direction, isNight) ==
    LET d == toupper(direction)
        nx == IF d = "E" THEN p.x - 1 ELSE IF d = "W" THEN p.x + 1 ELSE p.x
        ny == IF d = "N" THEN p.y - 1 ELSE IF d = "S" THEN p.y + 1 ELSE p.y
    IN  IF d \notin {"N", "S", "E", "W"}
        THEN [player |-> p, grid |-> g, ret |-> FALSE,
              out |-> << <<"Board", "Unknown direction.">> >>]
        ELSE IF ~inBounds(g, nx, ny)
        THEN [player |-> p, grid |-> g, ret |-> FALSE,
              out |-> << <<"Board", "You cannot move that direction (out of bounds).">> >>]
        ELSE LET p1 == setPosition(p, nx, ny)
                 sq == g[<<nx, ny>>]
                 g1 == IF hasEnemy(sq)
                       THEN [g EXCEPT ![<<nx, ny>>] =
                                placeEnemy(sq, EnemyUpdateForTime(sq.enemy, isNight))]
                       ELSE g
             IN  [player |-> p1, grid |-> g1, ret |-> TRUE,
                  out |-> lookAtPlayerSquare(p1, g1)]

\* Board::movePlayer(player, direction)
movePlayer(p, g, direction, isNight) ==
    LET d == toupper(direction)
        nx == IF d = "E" THEN p.x + 1 ELSE IF d = "W" THEN p.x - 1 ELSE p.x
        ny == IF d = "N" THEN p.y - 1 ELSE IF d = "S" THEN p.y + 1 ELSE p.y
    IN  IF d \notin {"N", "S", "E", "W"}
        THEN [player |-> p, grid |-> g, ret |-> FALSE,
              out |-> << <<"Board", "Unknown direction.">> >>]
        ELSE IF ~inBounds(g, nx, ny)
        THEN [player |-> p, grid |-> g, ret |-> FALSE,
              out |-> << <<"Board", "You cannot move that direction (out of bounds).">> >>]
        ELSE LET p1 == setPosition(p, nx, ny)
                 sq == g[<<nx, ny>>]
                 g1 == IF hasEnemy(sq)
                       THEN [g EXCEPT ![<<nx, ny>>] =
                                placeEnemy(sq, EnemyUpdateForTime(sq.enemy, isNight))]
                       ELSE g
             IN  [player |-> p1, grid |-> g1, ret |-> TRUE,
                  out |-> lookAtPlayerSquare(p1, g1)]

\* playerPickUp that, on a cell without an item, reaches for the item of the
\* first cell of the board that has one
playerPickUp_AnyCell(p, g) ==
    LET own == <<p.x, p.y>>
        withItem == {c \in Cells : hasItem(g[c])}
        pos == IF hasItem(g[own]) \/ withItem = {} THEN own
               ELSE CHOOSE c \in withItem : TRUE
        sq == g[pos]
    IN  IF ~hasItem(sq)
        THEN [player |-> p, grid |-> g,
              out |-> << <<"Board", "There is no item here to pick up.">> >>]
        ELSE LET t == takeItem(sq)
                 r == pickUp(p, t.item)
                 it == NullItem
             IN  IF ~r.ok
                 THEN [player |-> r.c,
                       grid |-> [g EXCEPT ![pos] = placeItem(t.sq, it)],
                       out |-> << <<"Board", "You cannot carry that item (category/weight). It remains here.">> >>]
                 ELSE [player |-> r.c,
                       grid |-> [g EXCEPT ![pos] = t.sq],
                       out |-> << <<"Board", "Item picked up successfully.">> >>]

\* Board::playerPickUp(player).  player.pickUp takes the unique_ptr by value,
\* so the local `it` is null once the call is made, whatever pickUp returns.
playerPickUp(p, g) ==
    LET pos == <<p.x, p.y>>
        sq == g[pos]
    IN  IF ~hasItem(sq)
        THEN [player |-> p, grid |-> g,
              out |-> << <<"Board", "There is no item here to pick up.">> >>]
        ELSE LET t == takeItem(sq)
                 r == pickUp(p, t.item)
                 it == NullItem
             IN  IF ~r.ok
                 THEN [player |-> r.c,
                       grid |-> [g EXCEPT ![pos] = placeItem(t.sq, it)],
                       out |-> << <<"Board", "You cannot carry that item (category/weight). It remains here.">> >>]
                 ELSE [player |-> r.c,
                       grid |-> [g EXCEPT ![pos] = t.sq],
                       out |-> << <<"Board", "Item picked up successfully.">> >>]

\* Board::playerDrop(player, itemToDrop)
playerDrop(p, g, itemToDrop) ==
    LET pos == <<p.x, p.y>>
        sq == g[pos]
    IN  IF hasItem(sq)
        THEN [grid |-> g, ret |-> FALSE,
              out |-> << <<"Board", "Square already contains an item.">> >>]
        ELSE LET d == dropItem(sq, itemToDrop)
             IN  IF d.ok
                 THEN [grid |-> [g EXCEPT ![pos] = d.sq], ret |-> TRUE,
                       out |-> << <<"Board", "Dropped item on square.">> >>]
                 ELSE [grid |-> g, ret |-> FALSE, out |-> <<>>]

\* playerAttack that leaves a defeated creature on its cell
playerAttack_KeepsCorpse(p, g, isNight, r1, r2) ==
    LET pos == <<p.x, p.y>>
        sq == g[pos]
    IN  IF ~hasEnemy(sq)
        THEN [player |-> p, grid |-> g, draws |-> 0,
              out |-> << <<"Board", "There is no enemy here to attack.">> >>]
        ELSE LET e0 == EnemyUpdateForTime(sq.enemy, isNight)
                 a1 == attack(p, e0, isNight, r1[1], r1[2], r1[3])
                 e == a1.target
             IN  IF ~isAlive(e)
                 THEN LET reward == getDefenceValueWithItems(e)
                      IN  [player |-> addGold(a1.attacker, reward),
                           grid |-> [g EXCEPT ![pos] = placeEnemy(sq, e)],
                           draws |-> a1.draws,
                           out |-> a1.out \o << <<"Board", "Enemy defeated!", reward>> >>]
                 ELSE LET a2 == attack(e, a1.attacker, isNight, r2[1], r2[2], r2[3])
                      IN  [player |-> a2.target,
                           grid |-> [g EXCEPT ![pos] = placeEnemy(sq, a2.attacker)],
                           draws |-> a1.draws + a2.draws,
                           out |-> a1.out
                                   \o << Msg(e, "attempts to counterattack!") >>
                                   \o a2.out
                                   \o (IF ~isAlive(a2.target)
                                       THEN << <<"Board", "You have been defeated! Game over.">> >>
                                       ELSE <<>>)]

\* playerAttack in which the creature strikes back before it is checked for
\* defeat
playerAttack_DyingBlow(p, g, isNight, r1, r2) ==
    LET pos == <<p.x, p.y>>
        sq == g[pos]
    IN  IF ~hasEnemy(sq)
        THEN [player |-> p, grid |-> g, draws |-> 0,
              out |-> << <<"Board", "There is no enemy here to attack.">> >>]
        ELSE LET e0 == EnemyUpdateForTime(sq.enemy, isNight)
                 a1 == attack(p, e0, isNight, r1[1], r1[2], r1[3])
                 e == a1.target
                 a2 == attack(e, a1.attacker, isNight, r2[1], r2[2], r2[3])
             IN  IF ~isAlive(e)
                 THEN LET dead == takeEnemy(placeEnemy(sq, e))
                          reward == getDefenceValueWithItems(dead.enemy)
                      IN  [player |-> addGold(a2.target, reward),
                           grid |-> [g EXCEPT ![pos] = dead.sq],
                           draws |-> a1.draws + a2.draws,
                           out |-> a1.out
                                   \o << Msg(e, "attempts to counterattack!") >>
                                   \o a2.out
                                   \o << <<"Board", "Enemy defeated!", reward>> >>]
                 ELSE [player |-> a2.target,
                       grid |-> [g EXCEPT ![pos] = placeEnemy(sq, a2.attacker)],
                       draws |-> a1.draws + a2.draws,
                       out |-> a1.out
                               \o << Msg(e, "attempts to counterattack!") >>
                               \o a2.out
                               \o (IF ~isAlive(a2.target)
                                   THEN << <<"Board", "You have been defeated! Game over.">> >>
                                   ELSE <<>>)]

\* playerAttack in which the counterattack is gated by a chance check of its own
playerAttack_GatedCounter(p, g, isNight, r1, r2) ==
    LET pos == <<p.x, p.y>>
        sq == g[pos]
    IN  IF ~hasEnemy(sq)
        THEN [player |-> p, grid |-> g, draws |-> 0,
              out |-> << <<"Board", "There is no enemy here to attack.">> >>]
        ELSE LET e0 == EnemyUpdateForTime(sq.enemy, isNight)
                 a1 == attack(p, e0, isNight, r1[1], r1[2], r1[3])
                 e == a1.target
             IN  IF ~isAlive(e)
                 THEN LET dead == takeEnemy(placeEnemy(sq, e))
                          reward == getDefenceValueWithItems(dead.enemy)
                      IN  [player |-> addGold(a1.attacker, reward),
                           grid |-> [g EXCEPT ![pos] = dead.sq],
                           draws |-> a1.draws,
                           out |-> a1.out \o << <<"Board", "Enemy defeated!", reward>> >>]
                 ELSE IF ~probability(e.attackChance, r2[1])
                 THEN [player |-> a1.attacker,
                       grid |-> [g EXCEPT ![pos] = placeEnemy(sq, e)],
                       draws |-> a1.draws + 1,
                       out |-> a1.out]
                 ELSE LET a2 == attack(e, a1.attacker, isNight, r2[1], r2[2], r2[3])
                      IN  [player |-> a2.target,
                           grid |-> [g EXCEPT ![pos] = placeEnemy(sq, a2.attacker)],
                           draws |-> a1.draws + a2.draws + 1,
                           out |-> a1.out
                                   \o << Msg(e, "attempts to counterattack!") >>
                                   \o a2.out]

\* Board::playerAttack(player); r1, r2 are the random values of the player's
\* attack and of the counterattack, each <<randReal, randReal, randInt>>
playerAttack(p, g, isNight, r1, r2) ==
    LET pos == <<p.x, p.y>>
        sq == g[pos]
    IN  IF ~hasEnemy(sq)
        THEN [player |-> p, grid |-> g, draws |-> 0,
              out |-> << <<"Board", "There is no enemy here to attack.">> >>]
        ELSE LET e0 == EnemyUpdateForTime(sq.enemy, isNight)
                 a1 == attack(p, e0, isNight, r1[1], r1[2], r1[3])
                 e == a1.target
             IN  IF ~isAlive(e)
                 THEN LET dead == takeEnemy(placeEnemy(sq, e))
                          reward == getDefenceValueWithItems(dead.enemy)
                      IN  [player |-> addGold(a1.attacker, reward),
                           grid |-> [g EXCEPT ![pos] = dead.sq],
                           draws |-> a1.draws,
                           out |-> a1.out \o << <<"Board", "Enemy defeated!", reward>> >>]
                 ELSE LET a2 == attack(e, a1.attacker, isNight, r2[1], r2[2], r2[3])
                      IN  [player |-> a2.target,
                           grid |-> [g EXCEPT ![pos] = placeEnemy(sq, a2.attacker)],
                           draws |-> a1.draws + a2.draws,
                           out |-> a1.out
                                   \o << Msg(e, "attempts to counterattack!") >>
                                   \o a2.out
                                   \o (IF ~isAlive(a2.target)
                                       THEN << <<"Board", "You have been defeated! Game over.">> >>
                                       ELSE <<>>)]

(***************************************************************************)
(* main.cpp: the command loop                                              *)
(***************************************************************************)
\* a bool return value, as recorded in ret
Bool(b) == IF b THEN "true" ELSE "false"

\* the boards Board::initialize can leave, with at most MaxOccupied squares filled
Boards ==
    UNION {{[c \in Cells |-> IF c \in S THEN f[c] ELSE BoardSquare] :
               f \in [S -> PopulatedSquares \ {BoardSquare}]} :
           S \in {T \in SUBSET Cells : Cardinality(T) <= MaxOccupied}}

\* the races typed at the prompt in the model
PlayerRaces == {"Human"}

\* main up to the first prompt: the race is read, the player is put on (0, 0),
\* the board is initialised and the player's square is described
Init ==
    /\ \E raceStr \in PlayerRaces : player = Player(raceStr, 0, 0)
    /\ grid \in Boards
    /\ night = FALSE
    /\ commandCount = 0
    /\ running = TRUE
    /\ crashed = FALSE
    /\ lastCmd = "start"
    /\ ret = "void"
    /\ out = lookAtPlayerSquare(player, grid)
    /\ draws = 0
    /\ other = NullChar
    /\ dice = <<>>

\* the number of commands a session is explored for: the sessions of an Orc
\* player run through two switches of the time of day
MaxOrcCommands == 10
CommandCap == IF player.race = "Orc" THEN MaxOrcCommands ELSE MaxCommands

\* a loop condition that does not look at the player's health
Prompt_IgnoresDeath ==
    /\ running /\ ~crashed
    /\ commandCount < CommandCap

\* the loop condition, and the cap on the number of commands explored
Prompt ==
    /\ running /\ ~crashed /\ isAlive(player)
    /\ commandCount < CommandCap

\* the end of the loop body for a recognised command: count it and, on every
\* COMMANDS_PER_TIME_SWITCH-th one, toggle day/night and refresh the player
Counted(p, msgs) ==
    LET n == commandCount + 1
        flip == (n % COMMANDS_PER_TIME_SWITCH = 0)
        nightNow == IF flip THEN ~night ELSE night
    IN  /\ commandCount' = n
        /\ night' = nightNow
        /\ player' = (IF flip THEN PlayerUpdateForTime(p, nightNow) ELSE p)
        /\ out' = msgs \o (IF flip
                           THEN << <<"main", IF nightNow THEN "Time changed. It is now Night."
                                             ELSE "Time changed. It is now Day.">> >>
                           ELSE <<>>)

\* case 'N', 'S', 'E', 'W'
CmdMove ==
    \E cmd \in {"N", "S", "E", "W", "n", "s", "e", "w"} :
        LET c == toupper(cmd)
            m == movePlayer(player, grid, c, night)
        IN  /\ Prompt
            /\ grid' = m.grid
            /\ Counted(m.player, m.out)
            /\ lastCmd' = c
            /\ ret' = Bool(m.ret)
            /\ draws' = 0
            /\ UNCHANGED <<running, crashed, other, dice>>

\* case 'L'
CmdLook ==
    /\ Prompt
    /\ Counted(player, lookAtPlayerSquare(player, grid))
    /\ lastCmd' = "L"
    /\ ret' = "void"
    /\ draws' = 0
    /\ UNCHANGED <<grid, running, crashed, other, dice>>

\* case 'P'
CmdPickUp ==
    LET r == playerPickUp(player, grid)
    IN  /\ Prompt
        /\ grid' = r.grid
        /\ Counted(r.player, r.out)
        /\ lastCmd' = "P"
        /\ ret' = "void"
        /\ draws' = 0
        /\ UNCHANGED <<running, crashed, other, dice>>

\* Player::selectItemToDrop; numeric says whether std::cin >> idx read a number,
\* idx is that number: the player afterwards, the item handed out, the messages
selectItemToDrop(p, numeric, idx) ==
    IF p.inventory = <<>>
    THEN [c |-> p, item |-> NullItem, out |-> << <<"Player", "No items to drop.">> >>]
    ELSE IF ~numeric
    THEN [c |-> p, item |-> NullItem, out |-> << <<"Player", "Invalid input.">> >>]
    ELSE IF idx < 0 \/ idx >= Len(p.inventory)
    THEN [c |-> p, item |-> NullItem, out |-> << <<"Player", "Index out of range.">> >>]
    ELSE LET r == removeItem(p, idx)
         IN  [c |-> r.c, item |-> r.item, out |-> <<>>]

\* the numbers typed at the prompt of selectItemToDrop
DropInputs == -1..MaxInventory

\* case 'D'.  playerDrop takes the unique_ptr by value: when it returns false
\* the Item has been destroyed, and rawBackup points at freed memory.  Handing
\* that pointer to returnDroppedItem is undefined: either the freed object
\* still reads as the item it was (stale = "intact"), or the process dies
\* (stale = "crash").
CmdDrop ==
    \E numeric \in BOOLEAN, idx \in DropInputs, stale \in {"intact", "crash"} :
        LET sel == selectItemToDrop(player, numeric, idx)
            d == playerDrop(sel.c, grid, sel.item)
        IN  /\ Prompt
            /\ idx <= Len(player.inventory)
            /\ numeric \/ idx = 0
            /\ lastCmd' = "D"
            /\ draws' = 0
            /\ UNCHANGED <<running, other, dice>>
            /\ IF sel.item = NullItem
               THEN /\ stale = "intact"
                    /\ grid' = grid
                    /\ ret' = "void"
                    /\ crashed' = FALSE
                    /\ Counted(sel.c, sel.out)
               ELSE IF d.ret
               THEN /\ stale = "intact"
                    /\ grid' = d.grid
                    /\ ret' = "true"
                    /\ crashed' = FALSE
                    /\ Counted(sel.c, sel.out \o d.out)
               ELSE IF stale = "intact"
               THEN /\ grid' = d.grid
                    /\ ret' = "false"
                    /\ crashed' = FALSE
                    /\ Counted(returnDroppedItem(sel.c, sel.item),
                               sel.out \o d.out
                                   \o << <<"main", "Drop failed. Item returned.">> >>)
               ELSE /\ grid' = d.grid
                    /\ ret' = "false"
                    /\ crashed' = TRUE
                    /\ player' = sel.c
                    /\ out' = sel.out \o d.out
                    /\ UNCHANGED <<commandCount, night>>

\* the values <<randReal, randReal, randInt>> one a.attack(target) call can draw;
\* a draw the call does not make is written 0
AttackDraws(a, target) ==
    {r \in Rolls \X Rolls \X randInt05 :
        /\ (target = NullChar \/ ~isAlive(target)) => r = <<0, 0, 0>>
        /\ ~attackSuccess(a, r[1]) => (r[2] = 0 /\ r[3] = 0)
        /\ ~(defenceSuccess(target, r[2]) /\ target.race = "Hobbit") => r[3] = 0}

\* case 'A'
CmdAttack ==
    \E r1 \in AttackDraws(player, grid[<<player.x, player.y>>].enemy),
       r2 \in AttackDraws(EnemyUpdateForTime(grid[<<player.x, player.y>>].enemy, night),
                          player) :
        LET r == playerAttack(player, grid, night, r1, r2)
        IN  /\ Prompt
            /\ grid' = r.grid
            /\ Counted(r.player, r.out)
            /\ lastCmd' = "A"
            /\ ret' = "void"
            /\ draws' = r.draws
            /\ UNCHANGED <<running, crashed, other, dice>>

\* case 'I': Player::showInventory prints and changes nothing
CmdInventory ==
    /\ Prompt
    /\ Counted(player, << <<"Player", "=== Player Stats ===">> >>)
    /\ lastCmd' = "I"
    /\ ret' = "void"
    /\ draws' = 0
    /\ UNCHANGED <<grid, running, crashed, other, dice>>

\* case 'X'
CmdExit ==
    /\ Prompt
    /\ running' = FALSE
    /\ Counted(player, <<>>)
    /\ lastCmd' = "X"
    /\ ret' = "void"
    /\ draws' = 0
    /\ UNCHANGED <<grid, crashed, other, dice>>

\* default: an unrecognised command is not counted
CmdUnknown ==
    /\ Prompt
    /\ lastCmd' = "?"
    /\ out' = << <<"main", "Unknown command.">> >>
    /\ ret' = "void"
    /\ draws' = 0
    /\ UNCHANGED <<player, grid, night, commandCount, running, crashed, other, dice>>

Next ==
    \/ CmdMove
    \/ CmdLook
    \/ CmdPickUp
    \/ CmdDrop
    \/ CmdAttack
    \/ CmdInventory
    \/ CmdExit
    \/ CmdUnknown

Spec == Init /\ [][Next]_vars

(***************************************************************************)
(* The command loop with an Orc player, on the boards that initialize      *)
(* leaves with at most MaxLoopOccupied squares filled and no creature but  *)
(* an Elf.                                                                 *)
(***************************************************************************)
MaxLoopOccupied == 1

LoopBoards ==
    {g \in Boards :
        /\ Cardinality({c \in Cells : g[c] # BoardSquare}) <= MaxLoopOccupied
        /\ \A c \in Cells : hasEnemy(g[c]) => g[c].enemy.race = "Elf"}

InitLoop ==
    /\ player = Player("Orc", 0, 0)
    /\ grid \in LoopBoards
    /\ night = FALSE
    /\ commandCount = 0
    /\ running = TRUE
    /\ crashed = FALSE
    /\ lastCmd = "start"
    /\ ret = "void"
    /\ out = lookAtPlayerSquare(player, grid)
    /\ draws = 0
    /\ other = NullChar
    /\ dice = <<>>

SpecLoop == InitLoop /\ [][Next]_vars

(***************************************************************************)
(* Direct use of one Character: pickUp, removeItem and addItemBack called  *)
(* with any item of the factory, in any order.                             *)
(***************************************************************************)
EmptyBoard == [c \in Cells |-> BoardSquare]

InitChar ==
    /\ \E raceStr \in Races : player = Player(raceStr, 0, 0)
    /\ grid = EmptyBoard
    /\ night = FALSE
    /\ commandCount = 0
    /\ running = TRUE
    /\ crashed = FALSE
    /\ lastCmd = "start"
    /\ ret = "void"
    /\ out = <<>>
    /\ draws = 0
    /\ other = NullChar
    /\ dice = <<>>

\* the unique_ptr<Item> arguments tried: every item of the factory, and nullptr
ItemArgs == FactoryItems \cup {NullItem}

CallPickUp ==
    \E item \in ItemArgs :
        LET r == pickUp(player, item)
        IN  /\ Len(player.inventory) < MaxInventory
            /\ player' = r.c
            /\ lastCmd' = "pickUp"
            /\ ret' = Bool(r.ok)
            /\ UNCHANGED <<grid, night, commandCount, running, crashed, out, draws, other, dice>>

CallRemoveItem ==
    \E index \in 0..MaxInventory :
        LET r == removeItem(player, index)
        IN  /\ index <= Len(player.inventory)
            /\ player' = r.c
            /\ lastCmd' = "removeItem"
            /\ ret' = r.item.name
            /\ UNCHANGED <<grid, night, commandCount, running, crashed, out, draws, other, dice>>

CallAddItemBack ==
    \E item \in ItemArgs :
        /\ Len(player.inventory) < MaxInventory
        /\ player' = addItemBack(player, item)
        /\ lastCmd' = "addItemBack"
        /\ ret' = "void"
        /\ UNCHANGED <<grid, night, commandCount, running, crashed, out, draws, other, dice>>

NextChar == CallPickUp \/ CallRemoveItem \/ CallAddItemBack

SpecChar == InitChar /\ [][NextChar]_vars

(***************************************************************************)
(* Direct use of Character::attack: one call, attacker and target built    *)
(* with the stats below, target possibly nullptr or already defeated.      *)
(***************************************************************************)
AttackValues == {0, 25, 30, 50}
DefenceValues == {0, 20, 35}
HealthValues == {0, 1, 30, 60}

\* a Player or an Enemy of a race whose effective attack, defence and health
\* have been brought to the given values
WithStats(c, a, d, h) == [c EXCEPT !.attack = a, !.defence = d, !.health = h]

Attackers ==
    {WithStats(Player(raceStr, 0, 0), a, 20, 60) :
        raceStr \in Races, a \in AttackValues}
    \cup {WithStats(Enemy(raceStr), a, 20, 60) :
        raceStr \in {"Orc"}, a \in AttackValues}

Targets ==
    {WithStats(Enemy(raceStr), 30, d, h) :
        raceStr \in Races, d \in DefenceValues, h \in HealthValues}
    \cup {WithStats(Player(raceStr, 0, 0), 30, d, h) :
        raceStr \in Races, d \in DefenceValues, h \in HealthValues}
    \cup {NullChar}

InitCombat ==
    /\ player \in Attackers
    /\ other \in Targets
    /\ night \in BOOLEAN
    /\ grid = EmptyBoard
    /\ commandCount = 0
    /\ running = TRUE
    /\ crashed = FALSE
    /\ lastCmd = "start"
    /\ ret = "void"
    /\ out = <<>>
    /\ draws = 0
    /\ dice = <<>>

\* player.attack(other), once
CallAttack ==
    \E r \in AttackDraws(player, other) :
        LET a == attack(player, other, night, r[1], r[2], r[3])
        IN  /\ lastCmd = "start"
            /\ player' = a.attacker
            /\ other' = a.target
            /\ out' = a.out
            /\ draws' = a.draws
            /\ dice' = r
            /\ lastCmd' = "attack"
            /\ UNCHANGED <<grid, night, commandCount, running, crashed, ret>>

NextCombat == CallAttack

SpecCombat == InitCombat /\ [][NextCombat]_vars

(***************************************************************************)
(* Direct use of one Character's stat interface: modifyAttack,             *)
(* modifyDefence, modifyHealth, modifyStrength, an item's applyEffect      *)
(* followed by its removeEffect, and updateForTime, on a Player or an      *)
(* Enemy of any race.  In this specification `other` holds the character   *)
(* as it was before the last applyEffect, `dice` the item applied and      *)
(* `night` the flag last given to updateForTime.                           *)
(***************************************************************************)
MaxCalls == 3

\* the largest value of the int fields attack_, defence_, health_, strength_
INT_MAX == 2147483647

\* the deltas tried: damage, a loss that leaves an Elf 5 health, a boost, and
\* the largest int
Deltas == {-50, -35, 10, INT_MAX}

\* `v += delta` leaves the range of int
Overflows(v, delta) == delta > 0 /\ v > INT_MAX - delta

\* the two's complement value of v + delta after such an overflow
Wrapped(v, delta) == (((v - INT_MAX) + delta) - INT_MAX) - 2

\* what `v += delta; if (v < 0) v = 0;` can leave in v after a signed
\* overflow, which is undefined: the wrapped sum clamped to 0, or the wrapped
\* sum itself where the comparison was folded on the assumption of no overflow
OverflowOutcomes(v, delta) == {0, Wrapped(v, delta)}

\* the characters the calls start from: a fresh Player or Enemy of any race,
\* bare or carrying a Sword
StatChars ==
    LET fresh == {Player(raceStr, 0, 0) : raceStr \in Races}
                    \cup {Enemy(raceStr) : raceStr \in Races}
    IN  fresh \cup {pickUp(c, createRandomItem(0)).c : c \in fresh}

InitStats ==
    /\ player \in StatChars
    /\ other = NullChar
    /\ dice = <<>>
    /\ night = FALSE
    /\ grid = EmptyBoard
    /\ commandCount = 0
    /\ running = TRUE
    /\ crashed = FALSE
    /\ lastCmd = "start"
    /\ ret = "void"
    /\ out = <<>>
    /\ draws = 0

\* another call is made: no undefined behaviour so far, calls left
StatsReady == ret # "overflow" /\ commandCount < MaxCalls

\* the frame of a call that is neither applyEffect nor removeEffect
StatsCalled(cmd) ==
    /\ lastCmd' = cmd
    /\ commandCount' = commandCount + 1
    /\ other' = NullChar
    /\ dice' = <<>>
    /\ UNCHANGED <<grid, night, running, crashed, out, draws>>

CallModifyAttack ==
    \E delta \in Deltas :
        /\ StatsReady
        /\ IF Overflows(player.attack, delta)
           THEN /\ \E v \in OverflowOutcomes(player.attack, delta) :
                        player' = [player EXCEPT !.attack = v]
                /\ ret' = "overflow"
           ELSE /\ player' = modifyAttack(player, delta)
                /\ ret' = "void"
        /\ StatsCalled("modifyAttack")

CallModifyDefence ==
    \E delta \in Deltas :
        /\ StatsReady
        /\ IF Overflows(player.defence, delta)
           THEN /\ \E v \in OverflowOutcomes(player.defence, delta) :
                        player' = [player EXCEPT !.defence = v]
                /\ ret' = "overflow"
           ELSE /\ player' = modifyDefence(player, delta)
                /\ ret' = "void"
        /\ StatsCalled("modifyDefence")

CallModifyHealth ==
    \E delta \in Deltas :
        /\ StatsReady
        /\ IF Overflows(player.health, delta)
           THEN /\ \E v \in OverflowOutcomes(player.health, delta) :
                        player' = [player EXCEPT !.health = v]
                /\ ret' = "overflow"
           ELSE /\ player' = modifyHealth(player, delta)
                /\ ret' = "void"
        /\ StatsCalled("modifyHealth")

CallModifyStrength ==
    \E delta \in Deltas :
        /\ StatsReady
        /\ IF Overflows(player.strength, delta)
           THEN /\ \E v \in OverflowOutcomes(player.strength, delta) :
                        player' = [player EXCEPT !.strength = v]
                /\ ret' = "overflow"
           ELSE /\ player' = modifyStrength(player, delta)
                /\ ret' = "void"
        /\ StatsCalled("modifyStrength")

\* the largest boost of a factory item; item effects are explored on
\* characters whose stats leave room for it
MaxBoost == 50

RoomForItem(c) ==
    \A v \in {c.attack, c.defence, c.health, c.strength} : v <= INT_MAX - MaxBoost

\* item->applyEffect(character)
CallApplyEffect ==
    \E item \in FactoryItems :
        /\ StatsReady
        /\ RoomForItem(player)
        /\ player' = applyEffect(item, player)
        /\ other' = player
        /\ dice' = <<item>>
        /\ lastCmd' = "applyEffect"
        /\ ret' = "void"
        /\ commandCount' = commandCount + 1
        /\ UNCHANGED <<grid, night, running, crashed, out, draws>>

\* item->removeEffect(character), for the item that was applied last
CallRemoveEffect ==
    /\ StatsReady
    /\ lastCmd = "applyEffect"
    /\ player' = removeEffect(dice[1], player)
    /\ lastCmd' = "removeEffect"
    /\ ret' = "void"
    /\ commandCount' = commandCount + 1
    /\ UNCHANGED <<grid, night, running, crashed, out, draws, other, dice>>

\* player.updateForTime(flag) on a Player
CallPlayerUpdateForTime ==
    \E flag \in BOOLEAN :
        /\ StatsReady
        /\ player.kind = "Player"
        /\ player' = PlayerUpdateForTime(player, flag)
        /\ ret' = "void"
        /\ lastCmd' = "updateForTime"
        /\ commandCount' = commandCount + 1
        /\ other' = NullChar
        /\ dice' = <<>>
        /\ night' = flag
        /\ UNCHANGED <<grid, running, crashed, out, draws>>

\* e->updateForTime(flag) on an Enemy
CallEnemyUpdateForTime ==
    \E flag \in BOOLEAN :
        /\ StatsReady
        /\ player.kind = "Enemy"
        /\ player' = EnemyUpdateForTime(player, flag)
        /\ ret' = "void"
        /\ lastCmd' = "updateForTime"
        /\ commandCount' = commandCount + 1
        /\ other' = NullChar
        /\ dice' = <<>>
        /\ night' = flag
        /\ UNCHANGED <<grid, running, crashed, out, draws>>

NextStats ==
    \/ CallModifyAttack
    \/ CallModifyDefence
    \/ CallModifyHealth
    \/ CallModifyStrength
    \/ CallApplyEffect
    \/ CallRemoveEffect
    \/ CallPlayerUpdateForTime
    \/ CallEnemyUpdateForTime

SpecStats == InitStats /\ [][NextStats]_vars

(***************************************************************************)
(* One pickUp or addItemBack call, and the removeItem call that follows a  *)
(* pickUp, on a Player that carries up to two items of the factory and may *)
(* have lost health in combat.  In this specification `other` holds the    *)
(* character as it was before the pickUp / addItemBack call and `dice` the *)
(* arguments of the calls: <<item>>, then <<item, index>>.                 *)
(***************************************************************************)
\* the health a Player may have lost in combat before the call
CombatDamage == {0, 35}

\* the characters of S, and each with one more factory item picked up
Loaded(S) == S \cup {pickUp(c, item).c : c \in S, item \in FactoryItems}

CarryChars ==
    Loaded(Loaded({modifyHealth(Player(raceStr, 0, 0), -d) :
                        raceStr \in Races, d \in CombatDamage}))

InitCarry ==
    /\ player \in CarryChars
    /\ other = NullChar
    /\ dice = <<>>
    /\ night = FALSE
    /\ grid = EmptyBoard
    /\ commandCount = 0
    /\ running = TRUE
    /\ crashed = FALSE
    /\ lastCmd = "start"
    /\ ret = "void"
    /\ out = <<>>
    /\ draws = 0

\* player.pickUp(item)
CarryPickUp ==
    \E item \in ItemArgs :
        LET r == pickUp(player, item)
        IN  /\ lastCmd = "start"
            /\ player' = r.c
            /\ other' = player
            /\ dice' = <<item>>
            /\ lastCmd' = "pickUp"
            /\ ret' = Bool(r.ok)
            /\ UNCHANGED <<grid, night, commandCount, running, crashed, out, draws>>

\* player.removeItem(index), right after a pickUp
CarryRemoveItem ==
    \E index \in 0..MaxInventory :
        LET r == removeItem(player, index)
        IN  /\ lastCmd = "pickUp"
            /\ index <= Len(player.inventory)
            /\ player' = r.c
            /\ dice' = <<dice[1], index>>
            /\ lastCmd' = "removeItem"
            /\ ret' = r.item.name
            /\ UNCHANGED <<grid, night, commandCount, running, crashed, out, draws, other>>

\* player.addItemBack(item)
CarryAddItemBack ==
    \E item \in ItemArgs :
        /\ lastCmd = "start"
        /\ player' = addItemBack(player, item)
        /\ other' = player
        /\ dice' = <<item>>
        /\ lastCmd' = "addItemBack"
        /\ ret' = "void"
        /\ UNCHANGED <<grid, night, commandCount, running, crashed, out, draws>>

NextCarry == CarryPickUp \/ CarryRemoveItem \/ CarryAddItemBack

SpecCarry == InitCarry /\ [][NextCarry]_vars

(***************************************************************************)
(* Direct use of the Board interface: movePlayer with any direction        *)
(* character, playerPickUp and playerAttack, for a player of any race      *)
(* standing on any cell of an initialised board, by day or by night.  In   *)
(* this specification `dice` holds the arguments of the last call (the     *)
(* direction, or the draws of the two attacks), `other` the creature that  *)
(* stood on the player's cell before the last playerAttack and            *)
(* `commandCount` the number of calls made.                                *)
(***************************************************************************)
\* the direction characters given to movePlayer
Directions == {"N", "S", "E", "W", "w", "X"}

\* the races of the player handed to the board
BoardRaces == {"Human", "Orc"}

InitBoard ==
    /\ \E raceStr \in BoardRaces, c \in Cells :
           player = Player(raceStr, c[1], c[2])
    /\ grid \in Boards
    /\ night \in BOOLEAN
    /\ commandCount = 0
    /\ running = TRUE
    /\ crashed = FALSE
    /\ lastCmd = "start"
    /\ ret = "void"
    /\ out = <<>>
    /\ draws = 0
    /\ other = NullChar
    /\ dice = <<>>

\* main hands the board a player only while the player is alive
BoardReady == isAlive(player) /\ commandCount < MaxCalls

BoardMovePlayer ==
    \E direction \in Directions :
        LET m == movePlayer(player, grid, direction, night)
        IN  /\ BoardReady
            /\ player' = m.player
            /\ grid' = m.grid
            /\ ret' = Bool(m.ret)
            /\ out' = m.out
            /\ dice' = <<direction>>
            /\ draws' = 0
            /\ other' = NullChar
            /\ lastCmd' = "movePlayer"
            /\ commandCount' = commandCount + 1
            /\ UNCHANGED <<night, running, crashed>>

BoardPlayerPickUp ==
    LET r == playerPickUp(player, grid)
    IN  /\ BoardReady
        /\ player' = r.player
        /\ grid' = r.grid
        /\ ret' = "void"
        /\ out' = r.out
        /\ dice' = <<>>
        /\ draws' = 0
        /\ other' = NullChar
        /\ lastCmd' = "playerPickUp"
        /\ commandCount' = commandCount + 1
        /\ UNCHANGED <<night, running, crashed>>

BoardPlayerAttack ==
    LET e0 == EnemyUpdateForTime(grid[<<player.x, player.y>>].enemy, night)
    IN  \E r1 \in AttackDraws(player, e0), r2 \in AttackDraws(e0, player) :
            LET r == playerAttack(player, grid, night, r1, r2)
            IN  /\ BoardReady
                /\ player' = r.player
                /\ grid' = r.grid
                /\ ret' = "void"
                /\ out' = r.out
                /\ dice' = <<r1, r2>>
                /\ draws' = r.draws
                /\ other' = grid[<<player.x, player.y>>].enemy
                /\ lastCmd' = "playerAttack"
                /\ commandCount' = commandCount + 1
                /\ UNCHANGED <<night, running, crashed>>

NextBoard == BoardMovePlayer \/ BoardPlayerPickUp \/ BoardPlayerAttack

SpecBoard == InitBoard /\ [][NextBoard]_vars

(***************************************************************************)
(* movePlayer and playerPickUp on a board with more than one row, so that  *)
(* a step north or south can succeed.                                      *)
(***************************************************************************)
MoveWidth == 2
MoveHeight == 2

MoveCells == (0..(MoveWidth - 1)) \X (0..(MoveHeight - 1))

\* the boards Board::initialize can leave on these cells, with at most
\* MaxOccupied squares filled
MoveBoards ==
    UNION {{[c \in MoveCells |-> IF c \in S THEN f[c] ELSE BoardSquare] :
               f \in [S -> PopulatedSquares \ {BoardSquare}]} :
           S \in {T \in SUBSET MoveCells : Cardinality(T) <= MaxOccupied}}

InitMove ==
    /\ \E raceStr \in BoardRaces, c \in MoveCells :
           player = Player(raceStr, c[1], c[2])
    /\ grid \in MoveBoards
    /\ night \in BOOLEAN
    /\ commandCount = 0
    /\ running = TRUE
    /\ crashed = FALSE
    /\ lastCmd = "start"
    /\ ret = "void"
    /\ out = <<>>
    /\ draws = 0
    /\ other = NullChar
    /\ dice = <<>>

NextMove == BoardMovePlayer \/ BoardPlayerPickUp

SpecMove == InitMove /\ [][NextMove]_vars

(***************************************************************************)
(* Properties                                                              *)
(***************************************************************************)
\* the player's square
Pos == <<player.x, player.y>>
Here == grid[Pos]

Max(a, b) == IF a > b THEN a ELSE b

\* how often message m occurs in the output msgs
CountIn(msgs, m) == Cardinality({i \in 1..Len(msgs) : msgs[i] = m})

\* how often item it occurs in the inventory inv
Copies(inv, it) == Cardinality({i \in 1..Len(inv) : inv[i] = it})

\* the two inventories hold the same items, whatever their order
SameItems(inv1, inv2) ==
    /\ Len(inv1) = Len(inv2)
    /\ \A it \in FactoryItems : Copies(inv1, it) = Copies(inv2, it)

\* the effective stats and the carried weight of p and q agree
SameStats(p, q) ==
    /\ p.attack = q.attack /\ p.defence = q.defence
    /\ p.health = q.health /\ p.strength = q.strength
    /\ p.carriedWeight = q.carriedWeight

RECURSIVE SumWeights(_)
SumWeights(inv) == IF inv = <<>> THEN 0 ELSE Head(inv).weight + SumWeights(Tail(inv))

\* C1: no board cell ever holds an item and a creature at the same time.
C1_NeverItemAndCreature ==
    \A c \in Cells : ~(hasItem(grid[c]) /\ hasEnemy(grid[c]))

\* C2: when playerPickUp meets an item that player.pickUp rejects, the same
\* item is on the cell afterwards and the player's inventory, carriedWeight
\* and stats are unchanged.
C2_RejectedPickUpLosesNothing ==
    [][(lastCmd' = "P" /\ hasItem(Here) /\ ~pickUp(player, Here.item).ok)
          => (/\ grid'[Pos].item = Here.item
              /\ player'.inventory = player.inventory
              /\ SameStats(player', player))]_vars

\* C3: after any sequence of pickUp, removeItem and addItemBack with the
\* factory's items, the total weight of the inventory is at most the
\* character's current strength.
C3_WeightWithinStrength == SumWeights(player.inventory) <= player.strength

\* C4: after any sequence of pickUp, removeItem and addItemBack the inventory
\* holds at most one Weapon, one Armour and one Shield.
C4_OnePerCategory ==
    \A t \in {"WEAPON", "ARMOUR", "SHIELD"} :
        Cardinality({i \in 1..Len(player.inventory) : player.inventory[i].type = t}) <= 1

\* C5: a drop onto the player's cell is rejected, and the cell left as it was,
\* whenever the cell already holds an item or a creature.
C5_DropOnlyOntoEmptyCell ==
    [][(lastCmd' = "D" /\ ret' \in {"true", "false"}
            /\ (hasItem(Here) \/ hasEnemy(Here)))
          => (ret' = "false" /\ grid' = grid)]_vars

\* C6: when the board rejects a drop, the item is back in the inventory with
\* its effect re-applied: carried items, carriedWeight and stats are as before
\* the command and the cell is unchanged.
C6_RejectedDropIsUndone ==
    [][(lastCmd' = "D" /\ ret' = "false")
          => (/\ ~crashed'
              /\ grid' = grid
              /\ SameItems(player'.inventory, player.inventory)
              /\ SameStats(player', player))]_vars

\* the defence of the profile a creature fights with when night has this value
ProfileDefence(e, isNight) ==
    IF e.race = "Orc"
    THEN (IF isNight THEN ORC_NIGHT.defence ELSE ORC_DAY.defence)
    ELSE e.defence

\* C7: a playerAttack on a creature either leaves a live creature on the cell
\* and the gold as it was, or removes the creature and adds exactly the
\* creature's defence (for an Orc, that of the current day/night profile) to
\* the player's gold.
C7_KillPaysDefence ==
    [][(lastCmd' = "A" /\ hasEnemy(Here))
          => \/ /\ hasEnemy(grid'[Pos]) /\ isAlive(grid'[Pos].enemy)
                /\ player'.gold = player.gold
             \/ /\ ~hasEnemy(grid'[Pos])
                /\ player'.gold = player.gold + ProfileDefence(Here.enemy, night)]_vars

\* an Orc raised in daylight has been killed at night and paid its night defence
C7_Witness ==
    /\ lastCmd = "A" /\ night /\ ~hasEnemy(Here)
    /\ CountIn(out, <<"Board", "Enemy defeated!", ORC_NIGHT.defence>>) = 1
    /\ player.gold = ORC_NIGHT.defence

\* the random draws the attack() calls reported in msgs made: one for a miss,
\* two otherwise, and one more when the defender is a Hobbit
DrawsShown(msgs, defenderRace) ==
    LET n(who, text) == CountIn(msgs, <<who, text>>)
        hobbit(who) == IF defenderRace[who] = "Hobbit" THEN 3 ELSE 2
    IN    n("Player", "missed the attack.") + n("Enemy", "missed the attack.")
        + 2 * (n("Player", "deals damage") + n("Enemy", "deals damage"))
        + hobbit("Player") * n("Player", "successfully defended (special).")
        + hobbit("Enemy") * n("Enemy", "successfully defended (special).")

\* C8: after a playerAttack round that leaves the creature on the cell, the
\* creature has counterattacked exactly once, and the only random draws of the
\* round are those of the two attack() calls.
C8_SurvivorCounterattacksOnce ==
    (lastCmd = "A" /\ hasEnemy(Here))
        => /\ CountIn(out, <<"Enemy", "attempts to counterattack!">>) = 1
           /\ CountIn(out, <<"Enemy", "attacks">>) = 1
           /\ draws = DrawsShown(out, [Player |-> player.race,
                                       Enemy |-> Here.enemy.race])

\* the player's attack missed and the creature struck back and did damage
C8_Witness ==
    /\ lastCmd = "A" /\ hasEnemy(Here)
    /\ CountIn(out, <<"Player", "missed the attack.">>) = 1
    /\ CountIn(out, <<"Enemy", "deals damage">>) = 1
    /\ player.health < player.baseHealth

\* C9: when the attack roll succeeds and the defence roll of a live target
\* fails, the target's health becomes
\* max(0, health - max(0, attacker's attack - target's defence)).
C9_UndefendedHitDamage ==
    [][(/\ lastCmd' = "attack"
        /\ other # NullChar /\ isAlive(other)
        /\ attackSuccess(player, dice'[1])
        /\ ~defenceSuccess(other, dice'[2]))
          => other'.health =
                Max(0, other.health - Max(0, player.attack - other.defence))]_vars

\* attack 30 against defence 0 has taken a target from 60 to 30
C9_Witness ==
    /\ lastCmd = "attack"
    /\ player.attack = 30 /\ other.defence = 0 /\ other.health = 30
    /\ CountIn(out, Msg(player, "deals damage")) = 1

\* C10: attack(target) on an absent or already defeated target draws no
\* random number and changes neither the attacker nor the target.
C10_NoTargetNoOp ==
    [][(lastCmd' = "attack" /\ (other = NullChar \/ ~isAlive(other)))
          => (other' = other /\ player' = player /\ draws' = 0)]_vars

\* attack() has been called on a defeated Elf and has only reported it
C10_Witness ==
    /\ lastCmd = "attack"
    /\ other # NullChar /\ other.race = "Elf" /\ other.health = 0
    /\ draws = 0
    /\ out = << Msg(other, "is already defeated.") >>

AttackDelta(it) == it.attackBoost - it.attackPenalty
DefenceDelta(it) == it.defenceBoost
HealthDelta(it) == it.healthBoost
StrengthDelta(it) == it.strengthBoost

\* adding sign * (the item's deltas) to c's stats would take one below 0
HitsFloor(c, it, sign) ==
    \/ c.attack + sign * AttackDelta(it) < 0
    \/ c.defence + sign * DefenceDelta(it) < 0
    \/ c.health + sign * HealthDelta(it) < 0
    \/ c.strength + sign * StrengthDelta(it) < 0

\* C12: when neither the applyEffect nor the removeEffect of an item hits the
\* 0 floor, the removeEffect restores exactly the attack, defence, health and
\* strength the character had before the applyEffect.
C12_ApplyRemoveRestores ==
    [][(/\ lastCmd' = "removeEffect"
        /\ ~HitsFloor(other, dice[1], 1)
        /\ ~HitsFloor(player, dice[1], -1))
          => (/\ player'.attack = other.attack
              /\ player'.defence = other.defence
              /\ player'.health = other.health
              /\ player'.strength = other.strength)]_vars

\* a Ring of Strength was applied to a character with room for its health
\* cost and removed again: health and strength are as before
C12_Witness ==
    /\ lastCmd = "removeEffect"
    /\ dice[1] = createRandomItem(7)
    /\ other.health >= 10
    /\ player.health = other.health /\ player.strength = other.strength

\* C13: when applying an item would take a stat below 0, the stat is clamped
\* to 0 and the following removeEffect leaves it at the magnitude of the
\* item's delta, which is not the value before the apply.
C13_ClampLoss ==
    [][(lastCmd' = "removeEffect")
          => (/\ (other.attack + AttackDelta(dice[1]) < 0)
                    => (/\ player.attack = 0
                        /\ player'.attack = -AttackDelta(dice[1])
                        /\ player'.attack # other.attack)
              /\ (other.health + HealthDelta(dice[1]) < 0)
                    => (/\ player.health = 0
                        /\ player'.health = -HealthDelta(dice[1])
                        /\ player'.health # other.health))]_vars

\* an Elf left with 5 health put on and took off the Ring of Strength (health
\* -10) and now has 10 health
C13_Witness ==
    /\ lastCmd = "removeEffect"
    /\ dice[1] = createRandomItem(7)
    /\ other.race = "Elf" /\ other.health = 5
    /\ player.health = 10

\* the three reasons for which pickUp is to refuse an item
Rejects(c, item) ==
    \/ item = NullItem
    \/ /\ item.type # "RING"
       /\ \E i \in 1..Len(c.inventory) : c.inventory[i].type = item.type
    \/ c.carriedWeight + item.weight > c.strength

\* C14: pickUp(item) returns false, and leaves inventory, carriedWeight and
\* stats as they were, exactly when the item is absent, or is no Ring and its
\* category is already carried, or carriedWeight + weight exceeds the strength
\* the character has before the item's effect; otherwise it succeeds.
C14_PickUpRejectsExactly ==
    [][(lastCmd' = "pickUp")
          => (/\ (ret' = "false") <=> Rejects(player, dice'[1])
              /\ (ret' = "false") => player' = player
              /\ (ret' = "true") =>
                    player'.inventory = Append(player.inventory, dice'[1]))]_vars

\* an item whose weight exactly fills the remaining capacity was picked up
C14_Witness ==
    /\ lastCmd = "pickUp" /\ ret = "true"
    /\ other.carriedWeight > 0
    /\ other.carriedWeight + dice[1].weight = other.strength
    /\ player.carriedWeight = other.strength

\* a successful pickUp of item took character c to character d: the item is
\* last in the inventory, its deltas are applied (floored at 0) and
\* carriedWeight has grown by its weight
PickedUp(c, item, d) ==
    /\ d.inventory = Append(c.inventory, item)
    /\ d.carriedWeight = c.carriedWeight + item.weight
    /\ d.attack = Max(0, c.attack + AttackDelta(item))
    /\ d.defence = Max(0, c.defence + DefenceDelta(item))
    /\ d.health = Max(0, c.health + HealthDelta(item))
    /\ d.strength = Max(0, c.strength + StrengthDelta(item))

\* removeItem at the index of the item just picked up handed that item out
\* and took the character back to what it was before the pickUp
Restored(before, item, after, handed) ==
    /\ handed = item.name
    /\ after.inventory = before.inventory
    /\ SameStats(after, before)

\* C15 as stated: a successful pickUp appends the item, applies its effect and
\* adds its weight, and a following removeItem at that item's index always
\* returns stats and carriedWeight to their values before the pickUp.
C15_PickUpThenRemoveRestores ==
    [][/\ (lastCmd' = "pickUp" /\ ret' = "true")
            => PickedUp(player, dice'[1], player')
       /\ (lastCmd' = "removeItem" /\ ret = "true"
                /\ dice'[2] = Len(other.inventory))
            => Restored(other, dice[1], player', ret')]_vars

\* C15 amended: the same, for a removeItem that follows a pickUp whose effect
\* did not clamp a stat at 0.
C15_PickUpThenRemoveRestoresUnclamped ==
    [][/\ (lastCmd' = "pickUp" /\ ret' = "true")
            => PickedUp(player, dice'[1], player')
       /\ (lastCmd' = "removeItem" /\ ret = "true"
                /\ dice'[2] = Len(other.inventory)
                /\ ~HitsFloor(other, dice[1], 1))
            => Restored(other, dice[1], player', ret')]_vars

\* a Sword was picked up by a Player carrying something else and removed
\* again: attack and carriedWeight are back at their values before the pickUp
C15_Witness ==
    /\ lastCmd = "removeItem" /\ ret = "Sword"
    /\ dice = <<createRandomItem(0), Len(other.inventory)>>
    /\ other.carriedWeight > 0
    /\ player.attack = other.attack
    /\ player.carriedWeight = other.carriedWeight

\* C16: addItemBack(item) leaves the character in the state pickUp(item)
\* would: both refuse and change nothing, or both apply the effect, add the
\* weight and append the item.
C16_AddItemBackMirrorsPickUp ==
    [][(lastCmd' = "addItemBack") => player' = pickUp(player, dice'[1]).c]_vars

\* C17: updateForTime(flag) on an Orc sets attack, attackChance, defence and
\* defenceChance to the Night profile when flag is true and to the Day profile
\* when false, whatever they were and whatever is carried; health, strength,
\* carriedWeight and inventory stay; a second call with the same flag changes
\* nothing; true followed by false leaves attack at 25.
C17_OrcProfileOverwritten ==
    [][(lastCmd' = "updateForTime" /\ player.race = "Orc")
          => LET prof == IF night' THEN ORC_NIGHT ELSE ORC_DAY
             IN  /\ player'.attack = prof.attack
                 /\ player'.attackChance = prof.attackChance
                 /\ player'.defence = prof.defence
                 /\ player'.defenceChance = prof.defenceChance
                 /\ player'.health = player.health
                 /\ player'.strength = player.strength
                 /\ player'.carriedWeight = player.carriedWeight
                 /\ player'.inventory = player.inventory
                 /\ (lastCmd = "updateForTime" /\ night' = night)
                        => player' = player
                 /\ (lastCmd = "updateForTime" /\ night /\ ~night')
                        => player'.attack = 25]_vars

\* an Orc creature that carries a Sword (attack 35) has, after three calls the
\* last of which was updateForTime(false), exactly the Day profile
C17_Witness ==
    /\ lastCmd = "updateForTime" /\ ~night /\ commandCount = 3
    /\ player.race = "Orc" /\ player.kind = "Enemy"
    /\ Len(player.inventory) = 1
    /\ player.attack = 25 /\ player.defence = 10
    /\ player.attackChance = 3 /\ player.defenceChance = 3

\* C18: updateForTime(flag) on a character that is no Orc changes no field.
C18_OtherRacesUntouched ==
    [][(lastCmd' = "updateForTime" /\ player.race # "Orc") => player' = player]_vars

\* an Elf player carrying a Sword was given updateForTime(true) and still has
\* its attack of 50 and its attack chance of 1
C18_Witness ==
    /\ lastCmd = "updateForTime" /\ night
    /\ player.race = "Elf" /\ player.kind = "Player"
    /\ Len(player.inventory) = 1
    /\ player.attack = 50 /\ player.attackChance = 12

\* in this direct attack() call the attack roll succeeded and the live Orc it
\* was aimed at made its defence roll
OrcDefended ==
    /\ lastCmd' = "attack"
    /\ other # NullChar /\ other.race = "Orc" /\ isAlive(other)
    /\ attackSuccess(player, dice'[1])
    /\ defenceSuccess(other, dice'[2])

C20_OrcDefenceQuartersIncoming ==
    [][(OrcDefended /\ ~night)
          => other'.health =
                Max(0, other.health
                        - (Max(0, player.attack - other.defence) \div 4))]_vars

\* in this direct attack() call the attack roll succeeded and the live target
\* made its defence roll
Defended ==
    /\ lastCmd' = "attack"
    /\ other # NullChar /\ isAlive(other)
    /\ attackSuccess(player, dice'[1])
    /\ defenceSuccess(other, dice'[2])

\* C21: a successful defence roll of a Human or Dwarf target leaves its health
\* unchanged; a successful defence roll of an Elf target raises its health by
\* exactly 1.
C21_BlockAndHeal ==
    [][Defended
          => /\ (other.race \in {"Human", "Dwarf"}) => other'.health = other.health
             /\ (other.race = "Elf") => other'.health = other.health + 1]_vars

\* an Elf player with 30 health defended against attack 50 and has 31 health
C21_Witness ==
    /\ lastCmd = "attack"
    /\ other.race = "Elf" /\ other.kind = "Player" /\ other.health = 31
    /\ player.attack = 50
    /\ CountIn(out, Msg(other, "successfully defended (special).")) = 1

\* C22: a successful defence roll of a Hobbit target costs it the value drawn
\* from 0..5, health floored at 0, whatever the attacker's attack and the
\* target's defence: never more than 5.
C22_HobbitResidualDamage ==
    [][(Defended /\ other.race = "Hobbit")
          => /\ dice'[3] \in 0..5
             /\ other'.health = Max(0, other.health - dice'[3])
             /\ other.health - other'.health <= 5]_vars

\* a Hobbit creature with defence 0 and 30 health defended against attack 50
\* and lost the 5 health drawn
C22_Witness ==
    /\ lastCmd = "attack" /\ dice[3] = 5
    /\ other.race = "Hobbit" /\ other.kind = "Enemy"
    /\ other.defence = 0 /\ other.health = 25
    /\ player.attack = 50
    /\ CountIn(out, Msg(other, "successfully defended (special).")) = 1

\* C30: attack() leaves the attacker unchanged and changes nothing of the
\* target but its health (attack, defence, strength, carried weight, inventory
\* and every other field stay); when the attack roll fails the target is
\* untouched as well.
C30_AttackFrame ==
    [][lastCmd' = "attack"
          => /\ player' = player
             /\ other' = IF other = NullChar THEN other
                         ELSE [other EXCEPT !.health = other'.health]
             /\ (~attackSuccess(player, dice'[1])) => other' = other]_vars

\* a Human attacker with attack 50 missed a live creature with defence 0 and
\* 30 health
C30_Witness ==
    /\ lastCmd = "attack"
    /\ player.race = "Human" /\ player.attack = 50
    /\ ~attackSuccess(player, dice[1])
    /\ other # NullChar /\ other.kind = "Enemy"
    /\ other.defence = 0 /\ other.health = 30
    /\ CountIn(out, Msg(player, "missed the attack.")) = 1

\* the cell one step from the player in the direction given (N is y - 1, S is
\* y + 1, E is x + 1, W is x - 1), and whether the direction is one of the four
Known(direction) == toupper(direction) \in {"N", "S", "E", "W"}
TargetX(direction) ==
    player.x + (IF toupper(direction) = "E" THEN 1
                ELSE IF toupper(direction) = "W" THEN -1 ELSE 0)
TargetY(direction) ==
    player.y + (IF toupper(direction) = "S" THEN 1
                ELSE IF toupper(direction) = "N" THEN -1 ELSE 0)

\* C23: movePlayer with a direction other than N, S, E, W (in either case) or
\* with a target cell outside the grid returns false and leaves the player
\* (position included) and every cell unchanged.
C23_RejectedMoveChangesNothing ==
    [][(/\ lastCmd' = "movePlayer"
        /\ \/ ~Known(dice'[1])
           \/ ~inBounds(grid, TargetX(dice'[1]), TargetY(dice'[1])))
          => /\ ret' = "false"
             /\ Pos' = Pos
             /\ player' = player
             /\ grid' = grid]_vars

\* after an accepted move, movePlayer was given the unknown direction "X"
\* and returned false
C23_Witness ==
    /\ lastCmd = "movePlayer" /\ dice = <<"X">> /\ ret = "false"
    /\ commandCount = 2
    /\ CountIn(out, <<"Board", "Unknown direction.">>) = 1

\* C24: for a player that starts inside the grid, after any sequence of
\* movePlayer calls (and other board calls) the player's position satisfies
\* 0 <= x < width and 0 <= y < height: the player's cell exists.
C24_PositionInsideGrid ==
    /\ inBounds(grid, player.x, player.y)
    /\ Pos \in DOMAIN grid

\* the player reached the east edge by an accepted move and was then refused a
\* further step east
C24_Witness ==
    /\ lastCmd = "movePlayer" /\ dice = <<"E">> /\ ret = "false"
    /\ commandCount >= 2
    /\ player.x = Width - 1

\* C25: after a valid movePlayer onto a cell that holds a creature, the
\* creature's attack, attackChance, defence and defenceChance are those of the
\* profile for the current day/night flag when the cell is described; a
\* non-Orc creature, and every other field and cell, is unchanged.
C25_ArrivalRefreshesCreature ==
    [][(lastCmd' = "movePlayer" /\ ret' = "true" /\ hasEnemy(grid[Pos']))
          => LET before == grid[Pos'].enemy
                 after == grid'[Pos'].enemy
                 prof == IF night THEN ORC_NIGHT ELSE ORC_DAY
             IN  /\ hasEnemy(grid'[Pos'])
                 /\ (before.race = "Orc")
                       => /\ after.attack = prof.attack
                          /\ after.attackChance = prof.attackChance
                          /\ after.defence = prof.defence
                          /\ after.defenceChance = prof.defenceChance
                          /\ after = [before EXCEPT
                                         !.attack = prof.attack,
                                         !.attackChance = prof.attackChance,
                                         !.defence = prof.defence,
                                         !.defenceChance = prof.defenceChance]
                 /\ (before.race # "Orc") => after = before
                 /\ \A c \in Cells \ {Pos'} : grid'[c] = grid[c]
                 /\ grid'[Pos'].item = grid[Pos'].item
                 /\ out' = << <<"Square", "An enemy is here", after.race,
                                after.health, after.attack, after.defence>> >>]_vars

\* by night the player stepped onto an Orc that was placed by day: the cell is
\* described with the Night attack 45 and defence 25
C25_Witness ==
    /\ lastCmd = "movePlayer" /\ ret = "true" /\ night
    /\ hasEnemy(Here) /\ Here.enemy.race = "Orc"
    /\ Here.enemy.attack = ORC_NIGHT.attack
    /\ Here.enemy.defenceChance = ORC_NIGHT.defenceChance
    /\ out = << <<"Square", "An enemy is here", "Orc", 50, 45, 25>> >>

\* C26: playerPickUp on a cell that holds no item and playerAttack on a cell
\* that holds no creature change nothing: the player (stats, inventory, gold,
\* position) and every cell are the same afterwards, and no random value is
\* drawn.
C26_EmptyCellChangesNothing ==
    [][(\/ lastCmd' = "playerPickUp" /\ ~hasItem(Here)
        \/ lastCmd' = "playerAttack" /\ ~hasEnemy(Here))
          => /\ player' = player
             /\ grid' = grid
             /\ draws' = 0]_vars

\* playerPickUp was called on a cell that holds a creature and no item, while
\* another cell holds an item
C26_Witness ==
    /\ lastCmd = "playerPickUp"
    /\ CountIn(out, <<"Board", "There is no item here to pick up.">>) = 1
    /\ ~hasItem(Here) /\ hasEnemy(Here)
    /\ \E c \in Cells : hasItem(grid[c])

\* C29: a creature that dies from the player's attack never counterattacks: in
\* a playerAttack call that ends with the creature removed, the player is as
\* before the call but for the gold, only the draws of the player's own
\* attack are made and no counterattack is announced.
C29_DeadCreatureDoesNotStrikeBack ==
    [][(lastCmd' = "playerAttack" /\ hasEnemy(Here) /\ ~hasEnemy(grid'[Pos]))
          => /\ player' = [player EXCEPT !.gold = player'.gold]
             /\ player'.gold >= player.gold
             /\ draws' <= 3
             /\ \A i \in 1..Len(out') : out'[i][2] # "attempts to counterattack!"]_vars

\* a creature was killed on the player's cell and paid its gold
C29_Witness ==
    /\ lastCmd = "playerAttack"
    /\ other # NullChar /\ isAlive(other)
    /\ ~hasEnemy(Here)
    /\ player.gold > 0
    /\ \E i \in 1..Len(out) : out[i][2] = "Enemy defeated!"

\* C27: the session ends at player death: once the player's health is 0 at
\* the end of a command, no further command is processed, so no later step
\* changes the player, the board, the command count or the time of day.
C27_DeathEndsSession ==
    [][~isAlive(player)
          => /\ player' = player
             /\ grid' = grid
             /\ commandCount' = commandCount
             /\ night' = night
             /\ lastCmd' = lastCmd]_vars

\* the player was killed by a counterattack while the session was still
\* running and commands were left
C27_Witness ==
    /\ ~isAlive(player)
    /\ lastCmd = "A"
    /\ running /\ ~crashed /\ commandCount < MaxCommands
    /\ hasEnemy(Here)
    /\ CountIn(out, <<"Board", "You have been defeated! Game over.">>) = 1

\* C28: at every command boundary every creature held by a cell has
\* health > 0 (a creature whose health reaches 0 leaves its cell within the
\* same attack command), and no command but an attack on the player's own cell
\* changes the health of a creature or removes one.
C28_BoardCreaturesAlive ==
    /\ [](\A c \in Cells : hasEnemy(grid[c]) => grid[c].enemy.health > 0)
    /\ [][\A c \in Cells :
              (hasEnemy(grid[c]) /\ ~(lastCmd' = "A" /\ c = Pos))
                 => /\ hasEnemy(grid'[c])
                    /\ grid'[c].enemy.health = grid[c].enemy.health]_vars

\* after an attack command the creature on the player's cell is wounded and
\* still there, alive
C28_Witness ==
    /\ lastCmd = "A"
    /\ hasEnemy(Here)
    /\ Here.enemy.health > 0
    /\ Here.enemy.health < Here.enemy.baseHealth

\* C31: after any sequence of pickUp, removeItem and addItemBack, carriedWeight
\* equals the sum of the weights of the items in the inventory, and a
\* removeItem that hands out an item lowers carriedWeight by exactly that
\* item's weight: the floor at 0 never takes effect.
C31_WeightIsInventorySum ==
    /\ [](player.carriedWeight = SumWeights(player.inventory))
    /\ [][(lastCmd' = "removeItem" /\ ret' # NullItem.name)
             => /\ Len(player'.inventory) = Len(player.inventory) - 1
                /\ player'.carriedWeight
                     = player.carriedWeight
                       - (SumWeights(player.inventory) - SumWeights(player'.inventory))
                /\ player'.carriedWeight < player.carriedWeight]_vars

\* an item was put back next to two others and the three weights are carried
C31_Witness ==
    /\ lastCmd = "addItemBack"
    /\ Len(player.inventory) = 3
    /\ player.carriedWeight = SumWeights(player.inventory)
    /\ player.carriedWeight >= 60

\* the sum of one boost field over the items of an inventory
RECURSIVE BoostSum(_, _)
BoostSum(inv, field) ==
    IF inv = <<>> THEN 0 ELSE Head(inv)[field] + BoostSum(Tail(inv), field)

C33_GoldOnlyFromKills ==
    /\ player.gold = 0
    /\ [][/\ player'.gold >= player.gold
          /\ (player'.gold # player.gold)
                => /\ lastCmd' = "A"
                   /\ hasEnemy(Here)
                   /\ ~hasEnemy(grid'[Pos])
          /\ (lastCmd' = "A" /\ hasEnemy(Here) /\ hasEnemy(grid'[Pos]))
                => player'.gold = player.gold]_vars

\* the gold of a kill is still there after a later move
C33_Witness ==
    /\ lastCmd \in {"N", "S", "E", "W"} /\ ret = "true"
    /\ player.gold > 0

\* C36: a valid movePlayer (a direction among N, S, E, W in either case, the
\* target inside the grid) returns true, moves the player by exactly one step
\* in that direction, changes nothing else of the player (stats, inventory,
\* gold), leaves every cell's item, its occupancy and its creature's health
\* as they were, and draws no random value: no combat takes place.
C36_ValidMoveFrame ==
    [][(/\ lastCmd' = "movePlayer"
        /\ Known(dice'[1])
        /\ inBounds(grid, TargetX(dice'[1]), TargetY(dice'[1])))
          => /\ ret' = "true"
             /\ Pos' = <<TargetX(dice'[1]), TargetY(dice'[1])>>
             /\ Pos' # Pos
             /\ player' = [player EXCEPT !.x = TargetX(dice'[1]),
                                         !.y = TargetY(dice'[1])]
             /\ DOMAIN grid' = DOMAIN grid
             /\ \A c \in DOMAIN grid :
                    /\ grid'[c].item = grid[c].item
                    /\ hasEnemy(grid'[c]) = hasEnemy(grid[c])
                    /\ grid'[c].enemy.health = grid[c].enemy.health
                    /\ grid'[c].enemy.race = grid[c].enemy.race
             /\ draws' = 0]_vars

\* a player carrying an item was moved north, from the second row onto a cell
\* of the first row that holds a creature
C36_Witness ==
    /\ lastCmd = "movePlayer" /\ dice = <<"N">> /\ ret = "true"
    /\ player.y = 0
    /\ Len(player.inventory) = 1
    /\ hasEnemy(Here)

\* C34: the day/night flag starts as day and flips once after every 5th
\* recognised command: at every command boundary it is night exactly when
\* floor(recognised commands / 5) is odd.  An unrecognised command is not
\* counted and flips nothing; every recognised command, failed moves and
\* rejected pick-ups, drops and attacks included, is counted once.
C34_FlagFollowsCommandCount ==
    /\ [](night <=> ((commandCount \div COMMANDS_PER_TIME_SWITCH) % 2 = 1))
    /\ [][/\ (lastCmd' = "?") => (commandCount' = commandCount /\ night' = night)
          /\ (lastCmd' # "?") => commandCount' = commandCount + 1]_vars

\* C35: for an Orc player in the game loop, at every command boundary
\* attackChance and defenceChance are those of the profile (Day or Night)
\* selected by the current day/night flag.
C35_OrcChancesFollowFlag ==
    (player.race = "Orc")
       => /\ player.attackChance
               = (IF night THEN ORC_NIGHT ELSE ORC_DAY).attackChance
          /\ player.defenceChance
               = (IF night THEN ORC_NIGHT ELSE ORC_DAY).defenceChance

\* after the second switch it is day again and the Orc player, who went
\* through the night, has the Day chances
C35_Witness ==
    /\ player.race = "Orc"
    /\ commandCount = 2 * COMMANDS_PER_TIME_SWITCH
    /\ ~night
    /\ player.attackChance = ORC_DAY.attackChance
    /\ player.defenceChance = ORC_DAY.defenceChance
    /\ CountIn(out, <<"main", "Time changed. It is now Day.">>) = 1

====
